---- MODULE Spec2Model ----
(***************************************************************************)
(* Model of the wiki table-of-contents utilities of the frontend           *)
(* (features/knowledge/tocUtils.ts): heading slugs, the HeadingIdGenerator,*)
(* the markdown TOC parser and the TOC selector.                           *)
(*                                                                         *)
(* A JavaScript string is modelled as a sequence of one-character strings, *)
(* so "## A" is <<"#", "#", " ", "A">>.  Positions are 1-based: the        *)
(* position p of the model is the JavaScript index p - 1.                  *)
(***************************************************************************)
EXTENDS Integers, Sequences, FiniteSets, TLC

VARIABLES
    mode,         \* which entry point the run exercises
    calls,        \* how many calls of that entry point have returned
    text,         \* generateHeadingSlug: the argument
    slug,         \* generateHeadingSlug: the returned slug
    existingIds,  \* HeadingIdGenerator.existingIds (of the generator in use)
    issued,       \* ids returned by generateId since construction / last reset, in order
    fed,          \* texts passed to generateId since construction / last reset, in order
    content,      \* parseTocFromMarkdown: the markdown of the last call
    maxLevel,     \* parseTocFromMarkdown: the maxLevel of the last call
    tocItems,     \* parseTocFromMarkdown: the list the last call returned
    memo,         \* an earlier call of parseTocFromMarkdown: its arguments and result
    wikiContent,  \* getTocFromContent: the argument
    toc,          \* getTocFromContent: the returned list
    parserCalls   \* getTocFromContent: how often it called parseTocFromMarkdown

slugVars == <<text, slug>>

genVars == <<existingIds, issued, fed>>

parseVars == <<content, maxLevel, tocItems, memo>>

selectVars == <<wikiContent, toc, parserCalls>>

VARIABLES
    value,        \* a call on any JavaScript value: the argument
    returned,     \* ... the list the call returned
    threw,        \* ... whether the call raised an error
    fullToc,      \* getH2TocItems: the argument
    h2Items,      \* getH2TocItems: the list returned for fullToc
    h2Again       \* getH2TocItems: the list returned for h2Items

valueVars == <<value, returned, threw>>

h2Vars == <<fullToc, h2Items, h2Again>>

VARIABLES
    phase,        \* useActiveHeading: "initial", "mounted" or "unmounted"
    headingIds,   \* ... the headingIds of the latest render
    containerRef, \* ... the ref object of the latest render
    current,      \* the current field of every ref object
    rootMargin,   \* ... options.rootMargin of the latest render, default applied
    threshold,    \* ... options.threshold of the latest render, default applied
    activeId,     \* ... the state activeId, which the hook returns
    observers,    \* the IntersectionObservers the hook has created, in order
    cleanup,      \* the observer the cleanup of the observer effect disconnects (0: none)
    pending,      \* the effects the last commit scheduled and that have not run yet
    dom,          \* the ids that document.getElementById finds
    renders,      \* how many times the hook was rendered again with new arguments
    lastVisible   \* the intersecting entries of the last batch processed that had one (<<>>: none)

trackVars ==
    <<phase, headingIds, containerRef, current, rootMargin, threshold, activeId,
      observers, cleanup, pending, dom, renders, lastVisible>>

VARIABLES
    layout,       \* the page: the ids with an element, and where the elements lie
    scrollY,      \* window.scrollY
    scrollTop,    \* container.scrollTop
    scrollCall,   \* the call of a scroll function made, with the positions before it
    request,      \* the scrollTo request the call issued
    raised,       \* whether the call raised an error
    honoured      \* whether the browser has carried the request out: "no", "exact", "clamped"

scrollVars == <<layout, scrollY, scrollTop, scrollCall, request, raised, honoured>>

VARIABLES
    generators,   \* two HeadingIdGenerator instances: their fields and what they were fed
    heading,      \* the heading line the markdown of a run was written from, in its parts
    inFlight      \* for each scroller, the smooth scroll the browser is carrying out on it

restVars == <<generators, heading, inFlight>>

\* the variables of the entry points outside the slug, generator, parser and selector runs
moreVars == <<valueVars, h2Vars, trackVars, scrollVars, restVars>>

tocVars == <<slugVars, genVars, parseVars, selectVars>>

vars == <<mode, calls, tocVars, moreVars>>

(***************************************************************************)
(* Characters                                                              *)
(***************************************************************************)
UpperLetters == <<"A","B","C","D","E","F","G","H","I","J","K","L","M",
                  "N","O","P","Q","R","S","T","U","V","W","X","Y","Z">>

LowerLetters == <<"a","b","c","d","e","f","g","h","i","j","k","l","m",
                  "n","o","p","q","r","s","t","u","v","w","x","y","z">>

DigitChars == <<"0","1","2","3","4","5","6","7","8","9">>

\* the backquote character (a string of the module cannot hold a backquote itself)
Backtick == "<backquote>"

Range(f) == {f[i] : i \in DOMAIN f}

\* \s of a JavaScript regular expression (the characters of it the model uses)
IsSpace(c) == c \in {" ", "\t", "\n", "\r"}

\* line terminators: what . does not match and what ^ and $ look at under /m
IsLineTerminator(c) == c \in {"\n", "\r"}

\* \w of a JavaScript regular expression without the u flag: [A-Za-z0-9_]
IsWord(c) == c \in Range(UpperLetters) \cup Range(LowerLetters) \cup Range(DigitChars) \cup {"_"}

\* String.prototype.toLowerCase on one character
LowerChar(c) ==
    IF c \in Range(UpperLetters)
    THEN LowerLetters[CHOOSE i \in DOMAIN UpperLetters : UpperLetters[i] = c]
    ELSE c

toLowerCase(s) == [i \in 1..Len(s) |-> LowerChar(s[i])]

\* String.prototype.trim
trim(s) ==
    LET keep == {i \in 1..Len(s) : ~IsSpace(s[i])}
    IN  IF keep = {} THEN <<>>
        ELSE LET lo == CHOOSE i \in keep : \A j \in keep : i <= j
                 hi == CHOOSE i \in keep : \A j \in keep : i >= j
             IN  SubSeq(s, lo, hi)

\* the character at position i, "" past either end of the string
At(s, i) == IF i \in 1..Len(s) THEN s[i] ELSE ""

IsHyphen(c) == c = "-"

\* a faulty variant: /\s+/ in place of /[\s_]+/
IsSpaceOnly(c) == IsSpace(c)

IsSpaceOrUnderscore(c) == IsSpace(c) \/ c = "_"

\* a faulty variant: /^-+/ in place of /^-+|-+$/
StripLeadingHyphens(s) ==
    LET keep == {i \in 1..Len(s) : s[i] # "-"}
    IN  IF keep = {} THEN <<>>
        ELSE SubSeq(s, CHOOSE i \in keep : \A j \in keep : i <= j, Len(s))

\* whether character c is in a character class of the regular expressions
InClass(cls, c) ==
    CASE cls = "\\s" -> IsSpace(c)
      [] cls = "[\\s_]" -> IsSpaceOrUnderscore(c)
      [] cls = "-" -> IsHyphen(c)
      [] cls = "#" -> c = "#"
      [] cls = "." -> c # "" /\ ~IsLineTerminator(c)
      [] cls = "[\\w-]" -> IsWord(c) \/ c = "-"

\* s.replace(/cls+/g, repl): every maximal run of characters of the class becomes repl
RECURSIVE ReplaceRuns(_, _, _)
ReplaceRuns(s, cls, repl) ==
    IF s = <<>> THEN <<>>
    ELSE IF InClass(cls, Head(s))
         THEN LET rest == Tail(s)
              IN  IF rest # <<>> /\ InClass(cls, Head(rest))
                  THEN ReplaceRuns(rest, cls, repl)
                  ELSE repl \o ReplaceRuns(rest, cls, repl)
         ELSE <<Head(s)>> \o ReplaceRuns(Tail(s), cls, repl)

\* s.replace(/^-+|-+$/g, '')
StripHyphens(s) ==
    LET keep == {i \in 1..Len(s) : s[i] # "-"}
    IN  IF keep = {} THEN <<>>
        ELSE LET lo == CHOOSE i \in keep : \A j \in keep : i <= j
                 hi == CHOOSE i \in keep : \A j \in keep : i >= j
             IN  SubSeq(s, lo, hi)

HeadingFallback == <<"h","e","a","d","i","n","g">>

(***************************************************************************)
(* generateHeadingSlug                                                     *)
(***************************************************************************)
generateHeadingSlug(t) ==
    LET s1 == trim(toLowerCase(t))
        s2 == SelectSeq(s1, LAMBDA c : IsWord(c) \/ IsSpace(c) \/ c = "-")
        s3 == ReplaceRuns(s2, "[\\s_]", <<"-">>)
        s4 == ReplaceRuns(s3, "-", <<"-">>)
        s5 == StripHyphens(s4)
    IN  IF s5 = <<>> THEN HeadingFallback ELSE s5

(***************************************************************************)
(* HeadingIdGenerator                                                      *)
(***************************************************************************)
\* the decimal digits of a natural number: ${counter} in a template string
RECURSIVE DecimalString(_)
DecimalString(n) ==
    IF n < 10 THEN <<DigitChars[n + 1]>>
    ELSE DecimalString(n \div 10) \o <<DigitChars[(n % 10) + 1]>>

\* a faulty variant: an if in place of the while
FirstFreeIdOnce(baseId, id, counter, existing) ==
    IF id \in existing THEN baseId \o <<"-">> \o DecimalString(counter) ELSE id

\* the while loop of generateId: the first candidate that is not in existing
RECURSIVE FirstFreeId(_, _, _, _)
FirstFreeId(baseId, id, counter, existing) ==
    IF id \in existing
    THEN FirstFreeId(baseId, baseId \o <<"-">> \o DecimalString(counter), counter + 1, existing)
    ELSE id

\* a faulty variant: the counter starts at 0
generateIdFromZero(t, existing) ==
    LET baseId == generateHeadingSlug(t)
        id == FirstFreeId(baseId, baseId, 0, existing)
    IN  [id |-> id, existingIds |-> existing \cup {id}]

\* a faulty variant: the returned id is not added to the set
generateIdUnrecorded(t, existing) ==
    LET baseId == generateHeadingSlug(t)
        id == FirstFreeId(baseId, baseId, 1, existing)
    IN  [id |-> id, existingIds |-> existing]

\* generateId(text) on a generator whose existingIds is existing: the id returned
\* and the generator's existingIds afterwards
generateId(t, existing) ==
    LET baseId == generateHeadingSlug(t)
        id == FirstFreeId(baseId, baseId, 1, existing)
    IN  [id |-> id, existingIds |-> existing \cup {id}]

\* new HeadingIdGenerator(): the initial value of the field existingIds
NewExistingIds == {}

(***************************************************************************)
(* The heading regular expression of parseTocFromMarkdown                  *)
(*     /^(#{2,3})\s+(.+?)(?:\s*{#[\w-]+})?\s*$/gm                          *)
(* matched the way a backtracking engine matches it: each quantifier tries *)
(* its choices in its own order (greedy: longest first, lazy: shortest     *)
(* first) and the first combination that lets the rest match is taken.     *)
(***************************************************************************)
NoMatch == [index |-> 0]

\* the length of the longest run of class characters that starts at position i
RECURSIVE RunLen(_, _, _)
RunLen(s, cls, i) ==
    IF i \in 1..Len(s) /\ InClass(cls, s[i]) THEN 1 + RunLen(s, cls, i + 1) ELSE 0

SetMax(S) == CHOOSE x \in S : \A y \in S : y <= x

SetMin(S) == CHOOSE x \in S : \A y \in S : x <= y

\* ^ under /m
AtLineStart(s, p) == p = 1 \/ IsLineTerminator(At(s, p - 1))

\* $ under /m
AtLineEnd(s, e) == e = Len(s) + 1 \/ IsLineTerminator(At(s, e))

\* \s*$ from position j: the position after the match (0: no match); \s* is greedy
TrailEnd(s, j) ==
    LET ends == {j + t : t \in {u \in 0..RunLen(s, "\\s", j) : AtLineEnd(s, j + u)}}
    IN  IF ends = {} THEN 0 ELSE SetMax(ends)

\* \s*{#[\w-]+} from position i: the positions after the ways it matches
AnchorEnds(s, i) ==
    UNION { { i + w + 2 + a + 1 :
                a \in {b \in 1..RunLen(s, "[\\w-]", i + w + 2) : At(s, i + w + 2 + b) = "}"} } :
            w \in {v \in 0..RunLen(s, "\\s", i) : At(s, i + v) = "{" /\ At(s, i + v + 1) = "#"} }

\* (?:\s*{#[\w-]+})?\s*$ from position i: the position after the match (0: no match).
\* The optional group is greedy: it is tried first, without it only if that fails.
SuffixEnd(s, i) ==
    LET withAnchor == {e \in AnchorEnds(s, i) : TrailEnd(s, e) # 0}
    IN  IF withAnchor # {} THEN TrailEnd(s, SetMax(withAnchor)) ELSE TrailEnd(s, i)

\* (.+?) from position q, followed by the rest of the expression: its possible lengths
TextLens(s, q) == {m \in 1..RunLen(s, ".", q) : SuffixEnd(s, q + m) # 0}

\* \s+ from position q, followed by the rest of the expression: its possible lengths
SpaceLens(s, q) == {k \in 1..RunLen(s, "\\s", q) : TextLens(s, q + k) # {}}

\* #{2,3} from position p, followed by the rest of the expression: its possible lengths
HashLens(s, p) ==
    {h \in 2..3 : (\A i \in p..(p + h - 1) : At(s, i) = "#") /\ SpaceLens(s, p + h) # {}}

\* the match that starts at position p, or NoMatch: where it starts (index),
\* group 1's length (hashes), group 2 (text) and where it starts (textAt), and
\* the position after the match (end, the next lastIndex + 1)
HeadingMatchAt(s, p) ==
    IF ~AtLineStart(s, p) \/ At(s, p) # "#" \/ HashLens(s, p) = {} THEN NoMatch
    ELSE LET h == SetMax(HashLens(s, p))
             k == SetMax(SpaceLens(s, p + h))
             m == SetMin(TextLens(s, p + h + k))
         IN  [index |-> p,
              hashes |-> h,
              textAt |-> p + h + k,
              text |-> SubSeq(s, p + h + k, p + h + k + m - 1),
              end |-> SuffixEnd(s, p + h + k + m)]

\* headingRegex.exec(content) with lastIndex = pos - 1: the leftmost match at or
\* after pos, or NoMatch (null)
HeadingExec(s, pos) ==
    LET starts == {p \in pos..Len(s) : HeadingMatchAt(s, p) # NoMatch}
    IN  IF starts = {} THEN NoMatch ELSE HeadingMatchAt(s, SetMin(starts))

(***************************************************************************)
(* The clean-up of a heading text                                          *)
(***************************************************************************)
StartsWith(s, i, w) == \A j \in 1..Len(w) : At(s, i + j - 1) = w[j]

\* open(.+?)close at position i: the possible lengths of the group
InnerLens(s, i, open, close) ==
    IF ~StartsWith(s, i, open) THEN {}
    ELSE {n \in 1..RunLen(s, ".", i + Len(open)) : StartsWith(s, i + Len(open) + n, close)}

\* s.replace(/open(.+?)close/g, '$1'), scanning from position i
RECURSIVE ReplaceDelimited(_, _, _, _)
ReplaceDelimited(s, i, open, close) ==
    IF i > Len(s) THEN <<>>
    ELSE LET lens == InnerLens(s, i, open, close)
         IN  IF lens = {} THEN <<s[i]>> \o ReplaceDelimited(s, i + 1, open, close)
             ELSE LET n == SetMin(lens)
                  IN  SubSeq(s, i + Len(open), i + Len(open) + n - 1)
                        \o ReplaceDelimited(s, i + Len(open) + n + Len(close), open, close)

\* \[(.+?)\]\(.+?\) at position i: the possible lengths of the first group
LinkTextLens(s, i) ==
    IF At(s, i) # "[" THEN {}
    ELSE {n \in 1..RunLen(s, ".", i + 1) :
             /\ StartsWith(s, i + 1 + n, <<"]", "(">>)
             /\ InnerLens(s, i + 2 + n, <<"(">>, <<")">>) # {}}

\* s.replace(/\[(.+?)\]\(.+?\)/g, '$1'), scanning from position i
RECURSIVE ReplaceLinks(_, _)
ReplaceLinks(s, i) ==
    IF i > Len(s) THEN <<>>
    ELSE LET lens == LinkTextLens(s, i)
         IN  IF lens = {} THEN <<s[i]>> \o ReplaceLinks(s, i + 1)
             ELSE LET n == SetMin(lens)
                      u == SetMin(InnerLens(s, i + 2 + n, <<"(">>, <<")">>))
                  IN  SubSeq(s, i + 1, i + n) \o ReplaceLinks(s, i + 2 + n + 1 + u + 1)

\* a faulty variant: italic is removed before bold
CleanHeadingTextItalicFirst(t) ==
    LET t1 == ReplaceDelimited(t, 1, <<"*">>, <<"*">>)
        t2 == ReplaceDelimited(t1, 1, <<"*", "*">>, <<"*", "*">>)
        t3 == ReplaceDelimited(t2, 1, <<Backtick>>, <<Backtick>>)
    IN  ReplaceLinks(t3, 1)

\* lines 92-95: bold, italic, inline code, links
CleanHeadingText(t) ==
    LET t1 == ReplaceDelimited(t, 1, <<"*", "*">>, <<"*", "*">>)
        t2 == ReplaceDelimited(t1, 1, <<"*">>, <<"*">>)
        t3 == ReplaceDelimited(t2, 1, <<Backtick>>, <<Backtick>>)
    IN  ReplaceLinks(t3, 1)

(***************************************************************************)
(* parseTocFromMarkdown                                                    *)
(***************************************************************************)
\* the generator a call of parseTocFromMarkdown creates (line 77), as a record
\* that also keeps what was asked of it
NewGenerator == [existingIds |-> NewExistingIds, issued |-> <<>>, fed |-> <<>>]

\* a faulty variant: the id is generated before the level is looked at
ParseMatchCountingSkipped(m, lvl, gen, items) ==
    LET cleaned == CleanHeadingText(trim(m.text))
        r == generateId(cleaned, gen.existingIds)
        g == [existingIds |-> r.existingIds, issued |-> Append(gen.issued, r.id),
              fed |-> Append(gen.fed, cleaned)]
    IN  IF m.hashes > lvl THEN [gen |-> g, tocItems |-> items]
        ELSE [gen |-> g,
              tocItems |-> Append(items, [id |-> r.id, text |-> cleaned, level |-> m.hashes])]

\* a faulty variant: a heading above maxLevel ends the scan (break in place of continue)
RECURSIVE ParseLoopBreaking(_, _, _, _, _)
ParseLoopBreaking(s, lvl, pos, gen, items) ==
    LET m == HeadingExec(s, pos)
    IN  IF m = NoMatch \/ m.hashes > lvl THEN [gen |-> gen, tocItems |-> items]
        ELSE LET cleaned == CleanHeadingText(trim(m.text))
                 r == generateId(cleaned, gen.existingIds)
             IN  ParseLoopBreaking(s, lvl, m.end,
                    [existingIds |-> r.existingIds, issued |-> Append(gen.issued, r.id),
                     fed |-> Append(gen.fed, cleaned)],
                    Append(items, [id |-> r.id, text |-> cleaned, level |-> m.hashes]))

\* one pass of the loop body for the match m (lines 84-98)
ParseMatch(m, lvl, gen, items) ==
    LET t == trim(m.text)
        level == m.hashes
    IN  IF level > lvl THEN [gen |-> gen, tocItems |-> items]
        ELSE LET cleaned == CleanHeadingText(t)
                 r == generateId(cleaned, gen.existingIds)
             IN  [gen |-> [existingIds |-> r.existingIds,
                           issued |-> Append(gen.issued, r.id),
                           fed |-> Append(gen.fed, cleaned)],
                  tocItems |-> Append(items, [id |-> r.id, text |-> cleaned, level |-> level])]

\* the while loop (lines 83-99) from lastIndex = pos - 1
RECURSIVE ParseLoop(_, _, _, _, _)
ParseLoop(s, lvl, pos, gen, items) ==
    LET m == HeadingExec(s, pos)
    IN  IF m = NoMatch THEN [gen |-> gen, tocItems |-> items]
        ELSE LET r == ParseMatch(m, lvl, gen, items)
             IN  ParseLoop(s, lvl, m.end, r.gen, r.tocItems)

\* parseTocFromMarkdown(content, lvl) with the generator it used
ParseWith(s, lvl, gen) ==
    IF s = <<>> THEN [gen |-> gen, tocItems |-> <<>>]
    ELSE ParseLoop(s, lvl, 1, gen, <<>>)

parseTocFromMarkdown(s, lvl) == ParseWith(s, lvl, NewGenerator).tocItems

\* the default of the parameter maxLevel
DefaultMaxLevel == 3

(***************************************************************************)
(* Inputs                                                                  *)
(***************************************************************************)
RECURSIVE SeqsUpTo(_, _)
SeqsUpTo(S, n) ==
    IF n = 0 THEN {<<>>}
    ELSE LET shorter == SeqsUpTo(S, n - 1)
         IN  shorter \cup {Append(q, x) : q \in shorter, x \in S}

MaxTextLen == 4

SlugAlphabet == {"A", "b", "1", " ", "_", "-", "!"}

HelloWorld == <<"H","e","l","l","o",","," ","W","o","r","l","d","!">>

SlugTexts == SeqsUpTo(SlugAlphabet, MaxTextLen) \cup {HelloWorld}

MaxHeadings == 4

HeadingTexts ==
    { <<"A">>, <<"a">>, <<"A"," ","1">>, <<"B">>, <<"!">>, <<"H","e","a","d","i","n","g">> }

(***************************************************************************)
(* Markdown documents: up to MaxLines lines of DocLines, joined by "\n"    *)
(***************************************************************************)
MaxLines == 3

MaxMaxLevel == 4

DocLines ==
    { <<"#","#"," ","A">>,                          \* ## A
      <<"#","#","#"," ","A">>,                      \* ### A
      <<"#","#","#","#"," ","A">>,                  \* #### A
      <<"#"," ","A">>,                              \* # A
      <<"#","#">>,                                  \* ##
      <<"#","#"," ","A"," ","1">>,                  \* ## A 1
      <<"#","#"," ","A"," ","{","#","x","}">> }     \* ## A {#x}

RECURSIVE JoinLines(_)
JoinLines(ls) ==
    IF ls = <<>> THEN <<>>
    ELSE IF Len(ls) = 1 THEN ls[1]
    ELSE ls[1] \o <<"\n">> \o JoinLines(Tail(ls))

\* ## A\n### B\n#### C\n## A
ExampleDoc ==
    JoinLines(<< <<"#","#"," ","A">>, <<"#","#","#"," ","B">>,
                 <<"#","#","#","#"," ","C">>, <<"#","#"," ","A">> >>)

Docs == {JoinLines(ls) : ls \in SeqsUpTo(DocLines, MaxLines)} \cup {ExampleDoc}

MaxLevels == 1..MaxMaxLevel

(***************************************************************************)
(* Idle values of the variables an entry point does not use                *)
(***************************************************************************)
SlugIdle == text = <<>> /\ slug = <<>>

GeneratorIdle == existingIds = {} /\ issued = <<>> /\ fed = <<>>

NoMemo == [set |-> FALSE, others |-> 0]

ParserIdle == content = <<>> /\ maxLevel = 0 /\ tocItems = <<>> /\ memo = NoMemo

SelectIdle == wikiContent = [type |-> "null"] /\ toc = <<>> /\ parserCalls = 0

ValueIdle == value = [type |-> "undefined"] /\ returned = <<>> /\ threw = FALSE

H2Idle == fullToc = <<>> /\ h2Items = <<>> /\ h2Again = <<>>

TrackIdle ==
    /\ phase = "initial" /\ headingIds = <<>> /\ containerRef = "none" /\ current = <<>>
    /\ rootMargin = "" /\ threshold = 0 /\ activeId = "null" /\ observers = <<>>
    /\ cleanup = 0 /\ pending = {} /\ dom = {} /\ renders = 0
    /\ lastVisible = <<>>

ScrollIdle ==
    /\ layout = [ids |-> {}] /\ scrollY = 0 /\ scrollTop = 0
    /\ scrollCall = [fn |-> "none"] /\ request = [target |-> "none"]
    /\ raised = FALSE /\ honoured = "no"

PairIdle == generators = <<>>

NoHeading == [hashes |-> 0]

FormatIdle == heading = NoHeading

RescrollIdle == inFlight = <<>>

RestIdle == PairIdle /\ FormatIdle /\ RescrollIdle

MoreIdle == ValueIdle /\ H2Idle /\ TrackIdle /\ ScrollIdle /\ RestIdle

TocIdle == SlugIdle /\ GeneratorIdle /\ ParserIdle /\ SelectIdle

(***************************************************************************)
(* generateHeadingSlug as an operation                                     *)
(***************************************************************************)
InitSlug ==
    /\ mode = "slug"
    /\ calls = 0
    /\ text \in SlugTexts
    /\ slug = <<>>
    /\ GeneratorIdle /\ ParserIdle /\ SelectIdle /\ MoreIdle

GenerateHeadingSlug ==
    /\ mode = "slug"
    /\ calls = 0
    /\ slug' = generateHeadingSlug(text)
    /\ calls' = calls + 1
    /\ UNCHANGED <<mode, text, genVars, parseVars, selectVars, moreVars>>

NextSlug == GenerateHeadingSlug

SpecSlug == InitSlug /\ [][NextSlug]_vars

(***************************************************************************)
(* A HeadingIdGenerator owned by a caller                                  *)
(***************************************************************************)
InitGen ==
    /\ mode = "generator"
    /\ calls = 0
    /\ existingIds = NewExistingIds
    /\ issued = <<>>
    /\ fed = <<>>
    /\ SlugIdle /\ ParserIdle /\ SelectIdle /\ MoreIdle

GenerateId(t) ==
    /\ mode = "generator"
    /\ Len(issued) < MaxHeadings
    /\ \E r \in {generateId(t, existingIds)} :
           /\ existingIds' = r.existingIds
           /\ issued' = Append(issued, r.id)
           /\ fed' = Append(fed, t)
    /\ calls' = calls + 1
    /\ UNCHANGED <<mode, slugVars, parseVars, selectVars, moreVars>>

Reset ==
    /\ mode = "generator"
    /\ issued # <<>>
    /\ existingIds' = {}
    /\ issued' = <<>>
    /\ fed' = <<>>
    /\ calls' = 0
    /\ UNCHANGED <<mode, slugVars, parseVars, selectVars, moreVars>>

NextGen ==
    \/ \E t \in HeadingTexts : GenerateId(t)
    \/ Reset

SpecGen == InitGen /\ [][NextGen]_vars

(***************************************************************************)
(* parseTocFromMarkdown as an operation                                    *)
(***************************************************************************)
InitParse ==
    /\ mode = "parser"
    /\ calls = 0
    /\ content \in Docs
    /\ maxLevel \in MaxLevels
    /\ tocItems = <<>>
    /\ memo = NoMemo
    /\ SlugIdle /\ GeneratorIdle /\ SelectIdle /\ MoreIdle

\* a faulty variant: one generator for all calls (a module-level idGenerator)
ParseTocFromMarkdownSharedGenerator(doc, lvl) ==
    /\ mode = "parser"
    /\ \E r \in {ParseWith(doc, lvl, [existingIds |-> existingIds, issued |-> issued, fed |-> fed])} :
           /\ tocItems' = r.tocItems
           /\ existingIds' = r.gen.existingIds
           /\ issued' = r.gen.issued
           /\ fed' = r.gen.fed
    /\ content' = doc
    /\ maxLevel' = lvl
    /\ calls' = calls + 1
    /\ UNCHANGED <<mode, slugVars, selectVars, moreVars>>

\* one call parseTocFromMarkdown(doc, lvl); existingIds, issued and fed show the
\* generator the call created
ParseTocFromMarkdown(doc, lvl) ==
    /\ mode = "parser"
    /\ \E r \in {ParseWith(doc, lvl, NewGenerator)} :
           /\ tocItems' = r.tocItems
           /\ existingIds' = r.gen.existingIds
           /\ issued' = r.gen.issued
           /\ fed' = r.gen.fed
    /\ content' = doc
    /\ maxLevel' = lvl
    /\ calls' = calls + 1
    /\ UNCHANGED <<mode, slugVars, selectVars, moreVars>>

\* the call the run makes: parseTocFromMarkdown(content, maxLevel)
ParseOnce ==
    /\ calls = 0
    /\ ParseTocFromMarkdown(content, maxLevel)
    /\ UNCHANGED memo

NextParse == ParseOnce

SpecParse == InitParse /\ [][NextParse]_vars

(***************************************************************************)
(* Ids of one generator, and of one parsed list                            *)
(***************************************************************************)
Init == InitGen \/ InitParse

Next == NextGen \/ NextParse

Spec == Init /\ [][Next]_vars

(***************************************************************************)
(* Repeated calls of parseTocFromMarkdown                                  *)
(***************************************************************************)
MaxCalls == 3

MaxRestartLines == 2

RestartLines == { <<"#","#"," ","A">>, <<"#","#","#"," ","A">> }

RestartDocs == {JoinLines(ls) : ls \in SeqsUpTo(RestartLines, MaxRestartLines)}

RestartLevels == 2..3

InitRestart ==
    /\ mode = "parser"
    /\ calls = 0
    /\ ParserIdle
    /\ SlugIdle /\ GeneratorIdle /\ SelectIdle /\ MoreIdle

\* memo after a call on (doc, lvl) that is not taken as the new memo: others
\* counts the calls on other arguments made since the memo was taken
MemoKept(doc, lvl) ==
    IF memo.set /\ (memo.content # doc \/ memo.maxLevel # lvl)
    THEN [memo EXCEPT !.others = 1]
    ELSE memo

\* a further call, on any document; memo keeps the arguments and the result of
\* one of the calls made so far
ParseAgain ==
    /\ calls < MaxCalls
    /\ \E doc \in RestartDocs, lvl \in RestartLevels :
          /\ ParseTocFromMarkdown(doc, lvl)
          /\ memo' \in {MemoKept(doc, lvl),
                         [set |-> TRUE, others |-> 0, content |-> doc, maxLevel |-> lvl,
                          tocItems |-> tocItems']}

NextRestart == ParseAgain

SpecRestart == InitRestart /\ [][NextRestart]_vars

(***************************************************************************)
(* getTocFromContent (tocUtils.ts)                                         *)
(*                                                                         *)
(* A JavaScript value is a record with a field type: "undefined", "null",  *)
(* "string" (with its length), "array" (with its items) or "object".       *)
(***************************************************************************)
Undefined == [type |-> "undefined"]

Null == [type |-> "null"]

\* the truthiness of a value: what && and ! look at
Truthy(v) ==
    CASE v.type \in {"undefined", "null"} -> FALSE
      [] v.type = "string" -> v.length > 0
      [] OTHER -> TRUE

\* content.ext?.toc
ExtToc(c) == IF c.ext.type \in {"undefined", "null"} THEN Undefined ELSE c.ext.toc

\* a faulty variant: the parsed list is preferred to the backend's
getTocFromContentParseFirst(c) ==
    IF ~Truthy(c) THEN [toc |-> <<>>, parserCalls |-> 0]
    ELSE IF parseTocFromMarkdown(c.content, DefaultMaxLevel) # <<>>
            \/ ~(Truthy(ExtToc(c)) /\ ExtToc(c).type = "array")
         THEN [toc |-> parseTocFromMarkdown(c.content, DefaultMaxLevel), parserCalls |-> 1]
         ELSE [toc |-> ExtToc(c).items, parserCalls |-> 1]

\* a faulty variant: no fallback to the parser
getTocFromContentNoFallback(c) ==
    IF ~Truthy(c) THEN [toc |-> <<>>, parserCalls |-> 0]
    ELSE IF Truthy(ExtToc(c)) /\ ExtToc(c).type = "array" /\ Len(ExtToc(c).items) > 0
         THEN [toc |-> ExtToc(c).items, parserCalls |-> 0]
         ELSE [toc |-> <<>>, parserCalls |-> 0]

\* getTocFromContent(c): the list returned and the number of calls of
\* parseTocFromMarkdown it made
getTocFromContent(c) ==
    IF ~Truthy(c) THEN [toc |-> <<>>, parserCalls |-> 0]
    ELSE IF Truthy(ExtToc(c)) /\ ExtToc(c).type = "array" /\ Len(ExtToc(c).items) > 0
         THEN [toc |-> ExtToc(c).items, parserCalls |-> 0]
         ELSE [toc |-> parseTocFromMarkdown(c.content, DefaultMaxLevel), parserCalls |-> 1]

TocItem(id, t, level) == [id |-> id, text |-> t, level |-> level]

\* TOC lists as a backend may supply them: their ids are the backend's own
BackendTocs ==
    { << TocItem(<<"x">>, <<"A">>, 2) >>,
      << TocItem(<<"a">>, <<"A">>, 3), TocItem(<<"a">>, <<"A">>, 2) >>,
      << TocItem(<<"b">>, <<"B">>, 2), TocItem(<<"a">>, <<"A">>, 2), TocItem(<<"c">>, <<"C">>, 3) >> }

TocValues ==
    {Undefined, Null, [type |-> "string", length |-> 2], [type |-> "array", items |-> <<>>]}
      \cup {[type |-> "array", items |-> t] : t \in BackendTocs}

ExtValues == {Undefined} \cup {[type |-> "object", toc |-> v] : v \in TocValues}

MaxSelectLines == 2

\* ## X
DocX == <<"#","#"," ","X">>

SelectDocs == {JoinLines(ls) : ls \in SeqsUpTo(DocLines, MaxSelectLines)} \cup {DocX}

WikiContents ==
    {Null} \cup {[type |-> "object", ext |-> e, content |-> d] : e \in ExtValues, d \in SelectDocs}

InitSelect ==
    /\ mode = "selector"
    /\ calls = 0
    /\ wikiContent \in WikiContents
    /\ toc = <<>>
    /\ parserCalls = 0
    /\ SlugIdle /\ GeneratorIdle /\ ParserIdle /\ MoreIdle

GetTocFromContent ==
    /\ mode = "selector"
    /\ calls = 0
    /\ \E r \in {getTocFromContent(wikiContent)} :
          /\ toc' = r.toc
          /\ parserCalls' = parserCalls + r.parserCalls
    /\ calls' = calls + 1
    /\ UNCHANGED <<mode, wikiContent, slugVars, genVars, parseVars, moreVars>>

NextSelect == GetTocFromContent

SpecSelect == InitSelect /\ [][NextSelect]_vars

(***************************************************************************)
(* Properties                                                              *)
(***************************************************************************)
NoDuplicates(q) == \A i, j \in 1..Len(q) : i # j => q[i] # q[j]

Ids(items) == [i \in 1..Len(items) |-> items[i].id]

Str_a == <<"a">>
Str_a1 == <<"a","-","1">>
Str_a2 == <<"a","-","2">>
Str_a11 == <<"a","-","1","-","1">>

\* C1: the ids a HeadingIdGenerator has returned since its construction or last
\* reset are pairwise distinct, and so are the ids of a list returned by
\* parseTocFromMarkdown.
C1_UniqueIds ==
    /\ NoDuplicates(issued)
    /\ mode = "parser" => NoDuplicates(Ids(tocItems))

\* the document ## A, ## A, ## A 1 has been parsed: the third heading's slug a-1
\* had been issued to the second
C1_Witness ==
    /\ mode = "parser"
    /\ calls = 1
    /\ fed = << <<"A">>, <<"A">>, <<"A"," ","1">> >>
    /\ Ids(tocItems) = <<Str_a, Str_a1, Str_a11>>

\* the base slugs of the texts fed to the generator
Bases == [i \in 1..Len(fed) |-> generateHeadingSlug(fed[i])]

\* which occurrence of its base slug the i-th text is
Occurrence(bases, i) == Cardinality({j \in 1..i : bases[j] = bases[i]})

\* b for the first occurrence, b-1 for the second, b-2 for the third, ...
SuffixedId(b, k) == IF k = 1 THEN b ELSE b \o <<"-">> \o DecimalString(k - 1)

NumberedInOrder(bases, i) == issued[i] = SuffixedId(bases[i], Occurrence(bases, i))

\* an earlier heading with another base slug was issued one of b, b-1, ..., b-(k-1)
Preempted(bases, i) ==
    \E j \in 1..(i - 1) :
        /\ bases[j] # bases[i]
        /\ \E k \in 1..Occurrence(bases, i) : issued[j] = SuffixedId(bases[i], k)

OriginalNumbering(bases) == \A i \in 1..Len(issued) : NumberedInOrder(bases, i)

AmendedNumbering(bases) ==
    \A i \in 1..Len(issued) : ~Preempted(bases, i) => NumberedInOrder(bases, i)

\* C2 as stated: the k-th heading with base slug b receives b (k = 1) or b-(k-1),
\* whatever other headings appear in between.
C2_Original == \A bases \in {Bases} : OriginalNumbering(bases)

\* C2 amended: the k-th heading with base slug b receives b (k = 1) or b-(k-1),
\* provided no earlier heading with another base slug was issued one of the ids
\* b, b-1, ..., b-(k-1).
C2_Numbering == \A bases \in {Bases} : AmendedNumbering(bases)

\* A, B, A, a: the third occurrence of base slug a, with another heading in between
C2_Witness ==
    /\ mode = "generator"
    /\ fed = << <<"A">>, <<"B">>, <<"A">>, <<"a">> >>
    /\ issued = << Str_a, <<"b">>, Str_a1, Str_a2 >>

(***************************************************************************)
(* The pipeline of the slug generator as the specification words it        *)
(***************************************************************************)
WordChars == Range(UpperLetters) \cup Range(LowerLetters) \cup Range(DigitChars) \cup {"_"}

Whitespace == {" ", "\t", "\n", "\r"}

RECURSIVE DropLeading(_, _)
DropLeading(s, S) ==
    IF s # <<>> /\ Head(s) \in S THEN DropLeading(Tail(s), S) ELSE s

RECURSIVE DropTrailing(_, _)
DropTrailing(s, S) ==
    IF s # <<>> /\ s[Len(s)] \in S THEN DropTrailing(SubSeq(s, 1, Len(s) - 1), S) ELSE s

Lowercased(s) ==
    [i \in 1..Len(s) |->
        IF \E k \in 1..26 : UpperLetters[k] = s[i]
        THEN LowerLetters[CHOOSE k \in 1..26 : UpperLetters[k] = s[i]]
        ELSE s[i]]

\* each run of characters of S replaced by one hyphen
RunsToHyphen(s, S) ==
    LET firsts == SelectSeq([i \in 1..Len(s) |-> <<i, s[i]>>],
                            LAMBDA pr : ~(pr[2] \in S /\ pr[1] > 1 /\ s[pr[1] - 1] \in S))
    IN  [j \in 1..Len(firsts) |-> IF firsts[j][2] \in S THEN "-" ELSE firsts[j][2]]

ClaimedSlug(t) ==
    LET s1 == DropTrailing(DropLeading(Lowercased(t), Whitespace), Whitespace)
        s2 == SelectSeq(s1, LAMBDA c : c \in WordChars \cup Whitespace \cup {"-"})
        s3 == RunsToHyphen(s2, Whitespace \cup {"_"})
        s4 == RunsToHyphen(s3, {"-"})
        s5 == DropTrailing(DropLeading(s4, {"-"}), {"-"})
    IN  IF s5 = <<>> THEN <<"h","e","a","d","i","n","g">> ELSE s5

\* C3: generateHeadingSlug(text) is the result of the pipeline (lowercase and trim,
\* delete all but word characters, whitespace and hyphens, runs of whitespace and
\* underscore to one hyphen, repeated hyphens to one, no leading or trailing
\* hyphen, "heading" when nothing is left); "Hello, World!" gives "hello-world"
\* and "___" gives "heading".
C3_SlugPipeline ==
    (mode = "slug" /\ calls = 1) =>
        /\ slug = ClaimedSlug(text)
        /\ text = HelloWorld => slug = <<"h","e","l","l","o","-","w","o","r","l","d">>
        /\ text = <<"_","_","_">> => slug = <<"h","e","a","d","i","n","g">>

C3_Witness ==
    /\ mode = "slug"
    /\ calls = 1
    /\ text = HelloWorld
    /\ slug = <<"h","e","l","l","o","-","w","o","r","l","d">>

AnchorSafeChars == Range(LowerLetters) \cup Range(DigitChars) \cup {"-"}

\* C4: a slug is not empty, holds only lowercase ASCII letters, digits and hyphens,
\* neither starts nor ends with a hyphen and has no two hyphens in a row.
C4_AnchorSafe ==
    (mode = "slug" /\ calls = 1) =>
        /\ slug # <<>>
        /\ \A i \in 1..Len(slug) : slug[i] \in AnchorSafeChars
        /\ slug[1] # "-"
        /\ slug[Len(slug)] # "-"
        /\ \A i \in 1..(Len(slug) - 1) : ~(slug[i] = "-" /\ slug[i + 1] = "-")

\* "A_-1" has an upper-case letter and a run of separators, and gives "a-1"
C4_Witness ==
    /\ mode = "slug"
    /\ calls = 1
    /\ text = <<"A","_","-","1">>
    /\ slug = <<"a","-","1">>

(***************************************************************************)
(* Properties of the parser                                                *)
(***************************************************************************)
ParserReturned == mode = "parser" /\ calls = 1

\* the matches headingRegex.exec yields from lastIndex = pos - 1 on, in order
RECURSIVE AllMatches(_, _)
AllMatches(s, pos) ==
    LET m == HeadingExec(s, pos)
    IN  IF m = NoMatch THEN <<>> ELSE <<m>> \o AllMatches(s, m.end)

\* the start of the line position p lies on
LineStartOf(s, p) ==
    SetMax({q \in 1..p : AtLineStart(s, q)})

\* the level of the line that starts at position q as an ATX heading: the number
\* of its leading # when whitespace or the end of the line follows them, else 0
LineLevel(s, q) ==
    LET n == RunLen(s, "#", q)
    IN  IF n >= 1 /\ (IsSpace(At(s, q + n)) \/ AtLineEnd(s, q + n)) THEN n ELSE 0

ExampleToc ==
    << [id |-> <<"a">>, text |-> <<"A">>, level |-> 2],
       [id |-> <<"b">>, text |-> <<"B">>, level |-> 3],
       [id |-> <<"a","-","1">>, text |-> <<"A">>, level |-> 2] >>

\* C5 as stated: every emitted item has level 2 or 3, and no item is made of a
\* line that is a heading of level 1 or of level 4 and deeper, whatever maxLevel
\* is; ## A, ### B, #### C, ## A gives a (2), b (3), a-1 (2).
C5_OnlyLevels2And3 ==
    ParserReturned =>
        /\ \A i \in 1..Len(tocItems) : tocItems[i].level \in {2, 3}
        /\ \A ms \in {AllMatches(content, 1)} :
              \A i \in 1..Len(ms) :
                 ms[i].hashes <= maxLevel =>
                    LineLevel(content, LineStartOf(content, ms[i].textAt)) \in {0, 2, 3}
        /\ (content = ExampleDoc /\ maxLevel = DefaultMaxLevel) => tocItems = ExampleToc

\* the markdown without the headings the parser skips (those above lvl)
RECURSIVE DeleteSkipped(_, _, _)
DeleteSkipped(s, lvl, pos) ==
    LET m == HeadingExec(s, pos)
    IN  IF m = NoMatch THEN SubSeq(s, pos, Len(s))
        ELSE IF m.hashes > lvl
             THEN SubSeq(s, pos, m.index - 1) \o DeleteSkipped(s, lvl, m.end)
             ELSE SubSeq(s, pos, m.end - 1) \o DeleteSkipped(s, lvl, m.end)

C7_Restartable ==
    (mode = "parser" /\ memo.set /\ memo.content = content /\ memo.maxLevel = maxLevel)
        => tocItems = memo.tocItems

\* ## A, ## A parsed, then another document, then ## A, ## A again
C7_Witness ==
    /\ mode = "parser"
    /\ memo.set
    /\ memo.others = 1
    /\ memo.content = content
    /\ memo.maxLevel = maxLevel
    /\ Ids(tocItems) = <<Str_a, Str_a1>>

\* the headings the expression recognizes that are not above lvl, in the order
\* the scan meets them
Recognized(s, lvl) == SelectSeq(AllMatches(s, 1), LAMBDA m : m.hashes <= lvl)

\* C8: the returned list has exactly one item per recognized heading line of
\* level <= maxLevel, in the order of those lines in the markdown.
C8_DocumentOrder ==
    ParserReturned =>
        \A ms \in {Recognized(content, maxLevel)} :
            /\ Len(tocItems) = Len(ms)
            /\ \A i \in 1..Len(ms) :
                  /\ tocItems[i].level = ms[i].hashes
                  /\ tocItems[i].text = CleanHeadingText(trim(ms[i].text))
            /\ \A i, j \in 1..Len(ms) : i < j => ms[i].index < ms[j].index

\* ### A, ## A 1, ## A with maxLevel = 3: three items in the order of the lines
C8_Witness ==
    /\ ParserReturned
    /\ maxLevel = 3
    /\ content = JoinLines(<< <<"#","#","#"," ","A">>, <<"#","#"," ","A"," ","1">>,
                              <<"#","#"," ","A">> >>)
    /\ tocItems = << [id |-> <<"a">>, text |-> <<"A">>, level |-> 3],
                     [id |-> <<"a","-","1">>, text |-> <<"A"," ","1">>, level |-> 2],
                     [id |-> <<"a","-","2">>, text |-> <<"A">>, level |-> 2] >>

(***************************************************************************)
(* Properties of the selector                                              *)
(***************************************************************************)
SelectorReturned == mode = "selector" /\ calls = 1

\* content.ext.toc exists, is an array and is not empty
HasBackendToc(c) ==
    /\ c.type = "object"
    /\ c.ext.type = "object"
    /\ c.ext.toc.type = "array"
    /\ c.ext.toc.items # <<>>

\* C9: with a non-empty array in content.ext.toc, getTocFromContent returns that
\* array as it is and does not call the parser, whatever content.content is.
C9_BackendTocVerbatim ==
    (SelectorReturned /\ HasBackendToc(wikiContent)) =>
        /\ toc = wikiContent.ext.toc.items
        /\ parserCalls = 0

\* a backend list with a repeated id, over markdown the parser would read otherwise
C9_Witness ==
    /\ SelectorReturned
    /\ HasBackendToc(wikiContent)
    /\ wikiContent.content = <<"#","#"," ","A">>
    /\ toc = << TocItem(<<"a">>, <<"A">>, 3), TocItem(<<"a">>, <<"A">>, 2) >>

\* C10: with content present and ext.toc missing, not an array or empty,
\* getTocFromContent returns parseTocFromMarkdown(content.content);
\* {ext: {toc: []}, content: "## X"} gives the one item for X.
C10_FallbackParses ==
    (SelectorReturned /\ wikiContent.type = "object" /\ ~HasBackendToc(wikiContent)) =>
        /\ toc = parseTocFromMarkdown(wikiContent.content, DefaultMaxLevel)
        /\ parserCalls = 1
        /\ (wikiContent.content = DocX) => toc = << TocItem(<<"x">>, <<"X">>, 2) >>

C10_Witness ==
    /\ SelectorReturned
    /\ wikiContent = [type |-> "object",
                      ext |-> [type |-> "object", toc |-> [type |-> "array", items |-> <<>>]],
                      content |-> DocX]
    /\ toc = << TocItem(<<"x">>, <<"X">>, 2) >>

(***************************************************************************)
(* Calls on absent values (tocUtils.ts, lines 74 and 110)                  *)
(*                                                                         *)
(* The outcome of a call is the list it returns and whether it raised an   *)
(* error.  Reading a property of undefined or null raises a TypeError.     *)
(***************************************************************************)
StringValue(s) == [type |-> "string", length |-> Len(s), chars |-> s]

\* the markdown the call fn(v) hands to the parser's loop: content.content
\* for getTocFromContent (line 118), content itself for parseTocFromMarkdown
MarkdownOf(fn, v) == IF fn = "getTocFromContent" THEN v.content ELSE v.chars

\* a faulty variant: the tests of lines 74 and 110 are missing, so that
\* getTocFromContent reads content.ext of null or undefined
CallOnValueUnguarded(fn, v) ==
    IF v.type \in {"undefined", "null"}
    THEN [threw |-> fn = "getTocFromContent", toc |-> <<>>]
    ELSE IF fn = "getTocFromContent" /\ Truthy(ExtToc(v)) /\ ExtToc(v).type = "array"
            /\ Len(ExtToc(v).items) > 0
    THEN [threw |-> FALSE, toc |-> ExtToc(v).items]
    ELSE [threw |-> FALSE, toc |-> parseTocFromMarkdown(MarkdownOf(fn, v), DefaultMaxLevel)]

\* the call fn(v) of getTocFromContent or parseTocFromMarkdown on any value v:
\* !content (lines 74 and 110) holds of undefined, null and ""
CallOnValue(fn, v) ==
    IF ~Truthy(v) THEN [threw |-> FALSE, toc |-> <<>>]
    ELSE IF fn = "getTocFromContent" /\ Truthy(ExtToc(v)) /\ ExtToc(v).type = "array"
            /\ Len(ExtToc(v).items) > 0
    THEN [threw |-> FALSE, toc |-> ExtToc(v).items]
    ELSE [threw |-> FALSE, toc |-> parseTocFromMarkdown(MarkdownOf(fn, v), DefaultMaxLevel)]

SelectorValues == {Undefined} \cup WikiContents

MarkdownValues == {Undefined, Null} \cup {StringValue(d) : d \in SelectDocs}

\* mode names the function that is called
InitValue ==
    /\ \/ mode = "getTocFromContent" /\ value \in SelectorValues
       \/ mode = "parseTocFromMarkdown" /\ value \in MarkdownValues
    /\ calls = 0
    /\ returned = <<>>
    /\ threw = FALSE
    /\ TocIdle /\ RestIdle /\ ScrollIdle /\ H2Idle /\ TrackIdle

CallValue ==
    /\ mode \in {"getTocFromContent", "parseTocFromMarkdown"}
    /\ calls = 0
    /\ \E r \in {CallOnValue(mode, value)} :
          /\ returned' = r.toc
          /\ threw' = r.threw
    /\ calls' = calls + 1
    /\ UNCHANGED <<mode, value, tocVars, restVars, scrollVars, h2Vars, trackVars>>

NextValue == CallValue

SpecValue == InitValue /\ [][NextValue]_vars

Absent(v) == v.type \in {"undefined", "null"} \/ (v.type = "string" /\ v.length = 0)

\* C11: getTocFromContent(null) returns the empty list, and so does
\* parseTocFromMarkdown on empty or missing markdown (undefined, null, "");
\* neither call raises an error.
C11_AbsentGivesEmpty ==
    (mode \in {"getTocFromContent", "parseTocFromMarkdown"} /\ calls = 1 /\ Absent(value))
        => (returned = <<>> /\ ~threw)

C11_Witness ==
    /\ calls = 1
    /\ \/ mode = "getTocFromContent" /\ value = Null
       \/ mode = "parseTocFromMarkdown" /\ value = StringValue(<<>>)
    /\ returned = <<>>
    /\ ~threw

(***************************************************************************)
(* getH2TocItems (tocUtils.ts, lines 126-128)                              *)
(***************************************************************************)
\* a faulty variant: item.level <= 2 in place of item.level === 2
getH2TocItemsUpTo2(t) == SelectSeq(t, LAMBDA item : item.level <= 2)

\* toc.filter((item) => item.level === 2)
getH2TocItems(t) == SelectSeq(t, LAMBDA item : item.level = 2)

MaxTocLen == 4

TocItems ==
    { TocItem(<<"a">>, <<"A">>, 2), TocItem(<<"b">>, <<"B">>, 3),
      TocItem(<<"a","-","1">>, <<"A">>, 2), TocItem(<<"c">>, <<"C">>, 1) }

TocLists == SeqsUpTo(TocItems, MaxTocLen)

InitH2 ==
    /\ mode = "h2"
    /\ calls = 0
    /\ fullToc \in TocLists
    /\ h2Items = <<>>
    /\ h2Again = <<>>
    /\ TocIdle /\ RestIdle /\ ScrollIdle /\ ValueIdle /\ TrackIdle

\* getH2TocItems(fullToc)
GetH2TocItems ==
    /\ mode = "h2"
    /\ calls = 0
    /\ h2Items' = getH2TocItems(fullToc)
    /\ calls' = 1
    /\ UNCHANGED <<mode, fullToc, h2Again, tocVars, restVars, scrollVars, valueVars, trackVars>>

\* getH2TocItems applied to the list the first call returned
GetH2TocItemsAgain ==
    /\ mode = "h2"
    /\ calls = 1
    /\ h2Again' = getH2TocItems(h2Items)
    /\ calls' = 2
    /\ UNCHANGED <<mode, fullToc, h2Items, tocVars, restVars, scrollVars, valueVars, trackVars>>

NextH2 == GetH2TocItems \/ GetH2TocItemsAgain

SpecH2 == InitH2 /\ [][NextH2]_vars

\* the positions of the level-2 items of t
Level2Positions(t) == {i \in 1..Len(t) : t[i].level = 2}

\* the k-th smallest element of the set P of positions
KthOf(P, k) == CHOOSE i \in P : Cardinality({j \in P : j <= i}) = k

\* C12: getH2TocItems(toc) is the list of the level-2 items of toc in their
\* order in toc (its k-th item is the k-th level-2 item of toc, and it has as
\* many items as toc has level-2 items); applying getH2TocItems to the result
\* gives the result again.
C12_Level2Subsequence ==
    /\ (mode = "h2" /\ calls >= 1) =>
          \A P \in {Level2Positions(fullToc)} :
              /\ Len(h2Items) = Cardinality(P)
              /\ \A k \in 1..Len(h2Items) : h2Items[k] = fullToc[KthOf(P, k)]
    /\ (mode = "h2" /\ calls = 2) => h2Again = h2Items

C12_Witness ==
    /\ mode = "h2"
    /\ calls = 2
    /\ fullToc = << TocItem(<<"c">>, <<"C">>, 1), TocItem(<<"a">>, <<"A">>, 2),
                    TocItem(<<"b">>, <<"B">>, 3), TocItem(<<"a","-","1">>, <<"A">>, 2) >>
    /\ h2Items = << TocItem(<<"a">>, <<"A">>, 2), TocItem(<<"a","-","1">>, <<"A">>, 2) >>
    /\ h2Again = h2Items

(***************************************************************************)
(* useActiveHeading (src/unnamed/part_001)                                 *)
(*                                                                         *)
(* The hook is rendered with (headingIds, containerRef, options).  React   *)
(* runs the effects of a commit after it, an effect only when one of its   *)
(* dependencies is not identical to its value at the previous render, and  *)
(* the cleanup an effect returned before the effect runs again and when    *)
(* the component unmounts.  A ref object keeps its identity while its      *)
(* field current changes.  Ids and elements are modelled as strings.       *)
(***************************************************************************)
\* useState<string | null>(null)
NullId == "null"

\* a ref whose current is null
NullElement == "null"

DefaultRootMargin == "-80px 0px -80% 0px"

DefaultThreshold == 0

\* a faulty variant: entries that do not intersect are sorted in as well
VisibleEntriesUnfiltered(entries) == entries

\* entries.filter((entry) => entry.isIntersecting)
VisibleEntries(entries) == SelectSeq(entries, LAMBDA entry : entry.isIntersecting)

\* e put into the list q, sorted by top, after the entries whose top is not larger
InsertByTop(e, q) ==
    LET before == SelectSeq(q, LAMBDA x : x.top <= e.top)
        after == SelectSeq(q, LAMBDA x : x.top > e.top)
    IN  before \o <<e>> \o after

\* .sort((a, b) => a.boundingClientRect.top - b.boundingClientRect.top): stable
RECURSIVE SortByTop(_)
SortByTop(q) ==
    IF q = <<>> THEN <<>>
    ELSE InsertByTop(q[Len(q)], SortByTop(SubSeq(q, 1, Len(q) - 1)))

\* a faulty variant: a batch without an intersecting entry clears the activeId
handleIntersectionClearing(entries, active) ==
    LET visibleEntries == SortByTop(VisibleEntries(entries))
    IN  IF Len(visibleEntries) > 0 THEN visibleEntries[1].id ELSE NullId

\* handleIntersection(entries): the activeId after it
handleIntersection(entries, active) ==
    LET visibleEntries == SortByTop(VisibleEntries(entries))
    IN  IF Len(visibleEntries) > 0 THEN visibleEntries[1].id ELSE active

\* a faulty variant: the cleanup function is not returned
RunCleanupMissing(obs, c) == obs

\* an observer after disconnect(): it observes nothing and delivers nothing
Disconnected == [connected |-> FALSE]

\* the cleanup of the observer effect: observer.disconnect() (lines 61-63)
RunCleanup(obs, c) ==
    IF c = 0 THEN obs ELSE [obs EXCEPT ![c] = Disconnected]

\* a faulty variant: every id of the list counts as observed, found or not
ObserverEffectAllIds(obs) ==
    IF Len(headingIds) = 0 THEN [observers |-> obs, cleanup |-> 0]
    ELSE [observers |->
              Append(obs, [root |-> current[containerRef],
                           rootMargin |-> rootMargin,
                           threshold |-> threshold,
                           targets |-> {headingIds[i] : i \in 1..Len(headingIds)},
                           connected |-> TRUE]),
          cleanup |-> Len(obs) + 1]

\* the observer effect (lines 44-64) after its cleanup: the observers and the
\* observer its cleanup will disconnect
ObserverEffect(obs) ==
    IF Len(headingIds) = 0 THEN [observers |-> obs, cleanup |-> 0]
    ELSE [observers |->
              Append(obs, [root |-> current[containerRef],
                           rootMargin |-> rootMargin,
                           threshold |-> threshold,
                           targets |-> {headingIds[i] : i \in 1..Len(headingIds)} \cap dom,
                           connected |-> TRUE]),
          cleanup |-> Len(obs) + 1]

\* a faulty variant: the last id of the list is taken
DefaultActiveIdLast(ids, active) ==
    IF Len(ids) > 0 /\ active = NullId THEN ids[Len(ids)] ELSE active

\* the initial-heading effect (lines 67-71): the activeId after it
DefaultActiveId(ids, active) ==
    IF Len(ids) > 0 /\ active = NullId THEN ids[1] ELSE active

MaxRenders == 1

HeadingIdLists == { <<>>, <<"h1", "h2">>, <<"h2">> }

Refs == {"refA", "refB"}

\* the ref objects that are attached to an element of the page
AttachedRefs == {"refA"}

Elements == {"div1", "div2"}

Options ==
    { [rootMargin |-> DefaultRootMargin, threshold |-> DefaultThreshold],
      [rootMargin |-> "0px", threshold |-> DefaultThreshold],
      [rootMargin |-> DefaultRootMargin, threshold |-> 1] }

Doms == { {"h1", "h2"}, {"h2"} }

Tops == {40, 120}

\* one IntersectionObserverEntry for a target of the observer o
EntriesOf(o) ==
    [id : o.targets, isIntersecting : BOOLEAN, top : Tops]

\* a batch: entries for one or two different targets
BatchesOf(o) ==
    {<<e>> : e \in EntriesOf(o)}
      \cup {b \in {<<e1, e2>> : e1 \in EntriesOf(o), e2 \in EntriesOf(o)} : b[1].id # b[2].id}

InitTrack ==
    /\ mode = "tracker"
    /\ calls = 0
    /\ phase = "initial"
    /\ headingIds = <<>>
    /\ containerRef = "none"
    /\ current = [ref \in Refs |-> IF ref \in AttachedRefs THEN "div1" ELSE NullElement]
    /\ rootMargin = ""
    /\ threshold = 0
    /\ activeId = NullId
    /\ observers = <<>>
    /\ cleanup = 0
    /\ pending = {}
    /\ dom \in Doms
    /\ renders = 0
    /\ lastVisible = <<>>
    /\ TocIdle /\ RestIdle /\ ScrollIdle /\ ValueIdle /\ H2Idle

\* the first render and its commit: both effects are scheduled
Mount(ids, ref, opts) ==
    /\ mode = "tracker"
    /\ phase = "initial"
    /\ phase' = "mounted"
    /\ headingIds' = ids
    /\ containerRef' = ref
    /\ rootMargin' = opts.rootMargin
    /\ threshold' = opts.threshold
    /\ activeId' = NullId
    /\ pending' = {"observer", "default"}
    /\ UNCHANGED <<mode, calls, current, observers, cleanup, dom, renders,
                   lastVisible, tocVars, restVars, scrollVars, valueVars, h2Vars>>

\* a later render with other arguments and its commit; sameArray: headingIds
\* is the array of the previous render
Rerender(sameArray, ids, ref, opts) ==
    /\ mode = "tracker"
    /\ phase = "mounted"
    /\ pending = {}
    /\ renders < MaxRenders
    /\ sameArray => ids = headingIds
    /\ headingIds' = ids
    /\ containerRef' = ref
    /\ rootMargin' = opts.rootMargin
    /\ threshold' = opts.threshold
    /\ pending' =
          (IF ~sameArray \/ ref # containerRef \/ opts.rootMargin # rootMargin
                \/ opts.threshold # threshold
           THEN {"observer"} ELSE {})
            \cup (IF ~sameArray THEN {"default"} ELSE {})
    /\ renders' = renders + 1
    /\ UNCHANGED <<mode, calls, phase, current, activeId, observers, cleanup, dom,
                   lastVisible, tocVars, restVars, scrollVars, valueVars, h2Vars>>

\* a commit that attaches the ref object in use to another element, or to none
\* (the element it was attached to is removed)
AttachRef(ref, el) ==
    /\ mode = "tracker"
    /\ phase = "mounted"
    /\ ref = containerRef
    /\ ref \in AttachedRefs
    /\ current[ref] # el
    /\ current' = [current EXCEPT ![ref] = el]
    /\ UNCHANGED <<mode, calls, phase, headingIds, containerRef, rootMargin, threshold,
                   activeId, observers, cleanup, pending, dom, renders,
                   lastVisible, tocVars, restVars, scrollVars, valueVars, h2Vars>>

\* the effects a commit scheduled: the cleanup of the observer effect and the
\* effect itself, then the initial-heading effect; a changed activeId renders
\* the hook again and schedules the initial-heading effect
FlushEffects ==
    /\ mode = "tracker"
    /\ phase = "mounted"
    /\ pending # {}
    /\ IF "observer" \in pending
       THEN \E r \in {ObserverEffect(RunCleanup(observers, cleanup))} :
               /\ observers' = r.observers
               /\ cleanup' = r.cleanup
       ELSE UNCHANGED <<observers, cleanup>>
    /\ activeId' = IF "default" \in pending THEN DefaultActiveId(headingIds, activeId)
                   ELSE activeId
    /\ pending' = IF activeId' # activeId THEN {"default"} ELSE {}
    /\ UNCHANGED <<mode, calls, phase, headingIds, containerRef, current, rootMargin,
                   threshold, dom, renders, lastVisible, tocVars, restVars, scrollVars, valueVars,
                   h2Vars>>

\* a connected observer delivers a batch of entries to handleIntersection
HandleIntersection(entries) ==
    /\ mode = "tracker"
    /\ phase = "mounted"
    /\ activeId' = handleIntersection(entries, activeId)
    /\ pending' = pending \cup (IF activeId' # activeId THEN {"default"} ELSE {})
    /\ lastVisible' = IF \E i \in 1..Len(entries) : entries[i].isIntersecting
                      THEN SelectSeq(entries, LAMBDA e : e.isIntersecting)
                      ELSE lastVisible
    /\ UNCHANGED <<mode, calls, phase, headingIds, containerRef, current, rootMargin,
                   threshold, observers, cleanup, dom, renders, tocVars, restVars, scrollVars, valueVars,
                   h2Vars>>

\* the component unmounts: the cleanup of the observer effect runs
Unmount ==
    /\ mode = "tracker"
    /\ phase = "mounted"
    /\ pending = {}
    /\ phase' = "unmounted"
    /\ observers' = RunCleanup(observers, cleanup)
    /\ cleanup' = 0
    /\ UNCHANGED <<mode, calls, headingIds, containerRef, current, rootMargin, threshold,
                   activeId, pending, dom, renders, lastVisible, tocVars, restVars, scrollVars,
                   valueVars, h2Vars>>

NextTrack ==
    \/ \E ids \in HeadingIdLists, ref \in Refs, opts \in Options : Mount(ids, ref, opts)
    \/ \E sameArray \in BOOLEAN, ids \in HeadingIdLists, ref \in Refs, opts \in Options :
          Rerender(sameArray, ids, ref, opts)
    \/ \E ref \in Refs, el \in Elements \cup {NullElement} : AttachRef(ref, el)
    \/ FlushEffects
    \/ \E i \in 1..Len(observers) :
          /\ observers[i].connected
          /\ \E entries \in BatchesOf(observers[i]) : HandleIntersection(entries)
    \/ Unmount

SpecTrack == InitTrack /\ [][NextTrack]_vars

(***************************************************************************)
(* Properties of useActiveHeading                                          *)
(***************************************************************************)
\* the hook is mounted and every scheduled effect has run
Settled == mode = "tracker" /\ phase = "mounted" /\ pending = {}

\* C13: the hook starts with activeId null (the value of its first render);
\* once the effects have run with a non-empty id list the activeId is not
\* null; and while no intersecting entry has been processed, the step that
\* takes activeId away from null sets it to the first id of the list, whether
\* or not that heading intersects or exists.
C13_InitialDefault ==
    /\ [](/\ (mode = "tracker" /\ phase = "mounted" /\ observers = <<>> /\ renders = 0
                 /\ "observer" \in pending) => activeId = NullId
          /\ (Settled /\ headingIds # <<>>) => activeId # NullId)
    /\ [][(activeId = NullId /\ activeId' # NullId /\ lastVisible' = <<>>)
             => (headingIds # <<>> /\ activeId' = headingIds[1])]_vars

C13_Witness ==
    /\ Settled
    /\ lastVisible = <<>>
    /\ dom = {"h2"}
    /\ headingIds = <<"h1", "h2">>
    /\ activeId = "h1"

\* the ids of the entries of the list q of intersecting entries whose top is smallest
MinTopIds(q) ==
    {q[i].id : i \in {j \in 1..Len(q) : \A k \in 1..Len(q) : q[j].top <= q[k].top}}

\* C14: after a batch with an intersecting entry the activeId is the id of an
\* intersecting entry of that batch with the smallest top, and it stays so
\* until the next such batch (a batch without an intersecting entry leaves
\* the activeId as it is): the activeId is determined by the last batch that
\* had an intersecting entry.
C14_ClosestToTop ==
    /\ [](lastVisible # <<>> => activeId \in MinTopIds(lastVisible))
    /\ [][lastVisible' = lastVisible
             => \/ activeId' = activeId
                \/ (activeId = NullId /\ "default" \in pending /\ headingIds # <<>>
                       /\ activeId' = headingIds[1])]_vars

C14_Witness ==
    /\ mode = "tracker"
    /\ lastVisible = << [id |-> "h1", isIntersecting |-> TRUE, top |-> 120],
                        [id |-> "h2", isIntersecting |-> TRUE, top |-> 40] >>
    /\ activeId = "h2"

\* the observers that are connected
Connected == {i \in 1..Len(observers) : observers[i].connected}

C16_Resubscribes ==
    (Settled /\ headingIds # <<>>) =>
        \E i \in Connected :
            /\ observers[i].root = current[containerRef]
            /\ observers[i].rootMargin = rootMargin
            /\ observers[i].threshold = threshold
            /\ observers[i].targets = {headingIds[k] : k \in 1..Len(headingIds)} \cap dom

(***************************************************************************)
(* scrollToHeading, scrollToHeadingInContainer (scrollUtils.ts)            *)
(*                                                                         *)
(* The headings lie in the scrollable container, as on the wiki page.      *)
(* layout.containerTop is the top of the container in the page and         *)
(* layout.offsetIn[id] the top of the element in the container's content;  *)
(* getBoundingClientRect gives positions relative to the viewport.         *)
(* scrollTo({top, behavior: 'smooth'}) is a request: the browser carries   *)
(* it out later and keeps the position in the scrollable range.            *)
(***************************************************************************)
\* offset: number = 80
DefaultOffset == 80

\* the value of the parameter offset for the argument arg
OffsetOf(arg) == IF arg.type = "undefined" THEN DefaultOffset ELSE arg.value

NoRequest == [target |-> "none"]

\* container.getBoundingClientRect().top
ContainerRectTop == layout.containerTop - scrollY

\* element.getBoundingClientRect().top for the element with the id
ElementRectTop(id) == ContainerRectTop + layout.offsetIn[id] - scrollTop

\* a faulty variant: window.scrollY is not added
scrollToHeadingNoScrollY(id, offset) ==
    IF id \notin layout.ids THEN [raised |-> FALSE, request |-> NoRequest]
    ELSE [raised |-> FALSE,
          request |-> [target |-> "window", top |-> ElementRectTop(id) - offset,
                       behavior |-> "smooth"]]

\* a faulty variant: the test of line 12 is missing, so null.getBoundingClientRect() is called
scrollToHeadingUnguarded(id, offset) ==
    IF id \notin layout.ids THEN [raised |-> TRUE, request |-> NoRequest]
    ELSE [raised |-> FALSE,
          request |-> [target |-> "window", top |-> ElementRectTop(id) + scrollY - offset,
                       behavior |-> "smooth"]]

\* a faulty variant: window.scrollY is the one read by the call before
scrollToHeadingStale(id, offset) ==
    IF id \notin layout.ids THEN [raised |-> FALSE, request |-> NoRequest]
    ELSE [raised |-> FALSE,
          request |-> [target |-> "window",
                       top |-> ElementRectTop(id)
                                 + (IF scrollCall.fn = "none" THEN scrollY ELSE scrollCall.scrollY)
                                 - offset,
                       behavior |-> "smooth"]]

\* scrollToHeading(id, offset): whether it raised, and the request it issued
scrollToHeading(id, offset) ==
    IF id \notin layout.ids THEN [raised |-> FALSE, request |-> NoRequest]
    ELSE LET elementPosition == ElementRectTop(id)
             offsetPosition == elementPosition + scrollY - offset
         IN  [raised |-> FALSE,
              request |-> [target |-> "window", top |-> offsetPosition,
                           behavior |-> "smooth"]]

\* a faulty variant: without a container nothing is scrolled
scrollToHeadingInContainerNoFallback(id, container, offset) ==
    IF container = NullElement THEN [raised |-> FALSE, request |-> NoRequest]
    ELSE IF id \notin layout.ids THEN [raised |-> FALSE, request |-> NoRequest]
    ELSE [raised |-> FALSE,
          request |-> [target |-> container,
                       top |-> ElementRectTop(id) - ContainerRectTop + scrollTop - offset,
                       behavior |-> "smooth"]]

\* scrollToHeadingInContainer(id, container, offset)
scrollToHeadingInContainer(id, container, offset) ==
    IF container = NullElement THEN scrollToHeading(id, offset)
    ELSE IF id \notin layout.ids THEN [raised |-> FALSE, request |-> NoRequest]
    ELSE LET containerRectTop == ContainerRectTop
             elementRectTop == ElementRectTop(id)
             offsetPosition == elementRectTop - containerRectTop + scrollTop - offset
         IN  [raised |-> FALSE,
              request |-> [target |-> container, top |-> offsetPosition,
                           behavior |-> "smooth"]]

ScrollIds == {"h1", "h2"}

Layouts ==
    { [ids |-> ids, containerTop |-> ct, offsetIn |-> [id \in ScrollIds |-> IF id = "h1" THEN 100 ELSE 500]]
        : ids \in SUBSET ScrollIds, ct \in {0, 60} }

OffsetArgs == {Undefined, [type |-> "number", value |-> 0], [type |-> "number", value |-> 120]}

\* the scroll container of the wiki page
ScrollContainer == "div1"

\* the positions a scrollable box can take
ScrollRange == 0..1000

InitScroll ==
    /\ mode = "scroll"
    /\ calls = 0
    /\ layout \in Layouts
    /\ scrollY \in {0, 40}
    /\ scrollTop \in {0, 300}
    /\ scrollCall = [fn |-> "none"]
    /\ request = NoRequest
    /\ raised = FALSE
    /\ honoured = "no"
    /\ TocIdle /\ RestIdle /\ ValueIdle /\ H2Idle /\ TrackIdle

ScrollToHeading(id, arg) ==
    /\ mode = "scroll"
    /\ calls = 0
    /\ \E r \in {scrollToHeading(id, OffsetOf(arg))} :
          /\ request' = r.request
          /\ raised' = r.raised
    /\ scrollCall' = [fn |-> "scrollToHeading", id |-> id, container |-> NullElement,
                      offset |-> arg, scrollY |-> scrollY, scrollTop |-> scrollTop]
    /\ calls' = 1
    /\ UNCHANGED <<mode, layout, scrollY, scrollTop, honoured, tocVars, restVars, valueVars, h2Vars,
                   trackVars>>

ScrollToHeadingInContainer(id, container, arg) ==
    /\ mode = "scroll"
    /\ calls = 0
    /\ \E r \in {scrollToHeadingInContainer(id, container, OffsetOf(arg))} :
          /\ request' = r.request
          /\ raised' = r.raised
    /\ scrollCall' = [fn |-> "scrollToHeadingInContainer", id |-> id,
                      container |-> container, offset |-> arg,
                      scrollY |-> scrollY, scrollTop |-> scrollTop]
    /\ calls' = 1
    /\ UNCHANGED <<mode, layout, scrollY, scrollTop, honoured, tocVars, restVars, valueVars, h2Vars,
                   trackVars>>

\* the browser carries out the request, as far as the scrollable range allows
Honour ==
    /\ mode = "scroll"
    /\ request # NoRequest
    /\ honoured = "no"
    /\ \E pos \in {IF request.top \in ScrollRange THEN request.top
                   ELSE IF request.top < 0 THEN 0 ELSE 1000} :
          /\ honoured' = IF pos = request.top THEN "exact" ELSE "clamped"
          /\ IF request.target = "window"
             THEN scrollY' = pos /\ UNCHANGED scrollTop
             ELSE scrollTop' = pos /\ UNCHANGED scrollY
    /\ UNCHANGED <<mode, calls, layout, scrollCall, request, raised, tocVars, restVars, valueVars,
                   h2Vars, trackVars>>

NextScroll ==
    \/ \E id \in ScrollIds, arg \in OffsetArgs : ScrollToHeading(id, arg)
    \/ \E id \in ScrollIds, container \in {NullElement, ScrollContainer}, arg \in OffsetArgs :
          ScrollToHeadingInContainer(id, container, arg)
    \/ Honour

SpecScroll == InitScroll /\ [][NextScroll]_vars

Called == mode = "scroll" /\ scrollCall.fn # "none"

\* C17: a call of scrollToHeading or scrollToHeadingInContainer with an id
\* that has no element issues no scroll request, neither to the window nor
\* to the container, raises no error, and leaves both scroll positions as
\* they were before the call.
C17_MissingElementNoOp ==
    (Called /\ scrollCall.id \notin layout.ids) =>
        /\ request = NoRequest
        /\ ~raised
        /\ honoured = "no"
        /\ scrollY = scrollCall.scrollY
        /\ scrollTop = scrollCall.scrollTop

C17_Witness ==
    /\ Called
    /\ scrollCall.fn = "scrollToHeadingInContainer"
    /\ scrollCall.container = ScrollContainer
    /\ scrollCall.id \notin layout.ids
    /\ request = NoRequest

\* C18: scrollToHeadingInContainer(id, null, offset) raises nothing and
\* issues the request scrollToHeading(id, offset) issues (to the window, or
\* none without the element); with a container the request goes to the
\* container, and the window is never scrolled.
C18_NullContainerFallsBack ==
    (Called /\ scrollCall.fn = "scrollToHeadingInContainer") =>
        IF scrollCall.container = NullElement
        THEN /\ ~raised
             /\ request.target \in {"window", "none"}
             /\ honoured = "no" =>
                   request = scrollToHeading(scrollCall.id, OffsetOf(scrollCall.offset)).request
        ELSE /\ request.target \in {scrollCall.container, "none"}
             /\ scrollY = scrollCall.scrollY

C18_Witness ==
    /\ Called
    /\ scrollCall.fn = "scrollToHeadingInContainer"
    /\ scrollCall.container = NullElement
    /\ request.target = "window"
    /\ honoured = "exact"
    /\ scrollY # scrollCall.scrollY

\* C19: before the request is carried out its top is the element's top in
\* the page minus the offset (page case) or the element's top in the
\* container's content minus the offset (container case), the offset being
\* 80 when the argument is left out; once it is carried out unclamped, the
\* element's top lies exactly offset pixels below the top of the viewport
\* (page case) or of the container (container case), whatever the scroll
\* positions were before the call.
C19_TargetPosition ==
    (Called /\ request # NoRequest) =>
        /\ scrollCall.offset = Undefined => OffsetOf(scrollCall.offset) = 80
        /\ honoured = "no" =>
              request.top =
                  IF request.target = "window"
                  THEN layout.containerTop + layout.offsetIn[scrollCall.id] - scrollTop
                          - OffsetOf(scrollCall.offset)
                  ELSE layout.offsetIn[scrollCall.id] - OffsetOf(scrollCall.offset)
        /\ honoured = "exact" =>
              IF request.target = "window"
              THEN ElementRectTop(scrollCall.id) = OffsetOf(scrollCall.offset)
              ELSE ElementRectTop(scrollCall.id) - ContainerRectTop = OffsetOf(scrollCall.offset)

C19_Witness ==
    /\ Called
    /\ scrollCall.offset = Undefined
    /\ request.target = ScrollContainer
    /\ honoured = "exact"
    /\ scrollTop # scrollCall.scrollTop
    /\ ElementRectTop(scrollCall.id) - ContainerRectTop = 80

(***************************************************************************)
(* Properties of one call of generateId                                    *)
(***************************************************************************)
\* a step of generateId: one more id has been returned
GenerateIdStep == mode = "generator" /\ Len(issued') = Len(issued) + 1

\* b-n
Candidate(b, n) == b \o <<"-">> \o DecimalString(n)

\* id is b when b is free in ids, and otherwise b-n for the smallest n >= 1 with b-n free
SmallestFree(id, b, ids) ==
    IF b \notin ids
    THEN id = b
    ELSE \E n \in 1..(Cardinality(ids) + 1) :
             /\ id = Candidate(b, n)
             /\ id \notin ids
             /\ \A k \in 1..(n - 1) : Candidate(b, k) \in ids

\* C21: generateId(text) returns the base slug b of text if b has not been issued,
\* and otherwise b-n for the smallest n >= 1 such that b-n has not been issued; the
\* set of issued ids grows by exactly the returned id.
C21_FirstFreeCandidate ==
    [][GenerateIdStep =>
          LET t  == fed'[Len(fed')]
              id == issued'[Len(issued')]
          IN  /\ SmallestFree(id, generateHeadingSlug(t), existingIds)
              /\ existingIds' = existingIds \cup {id}
              /\ fed' = Append(fed, t)]_vars

\* A, A 1, A, A: the last call found a, a-1 and a-2 issued and returned a-3
C21_Witness ==
    /\ mode = "generator"
    /\ fed = << <<"A">>, <<"A"," ","1">>, <<"A">>, <<"A">> >>
    /\ issued = << Str_a, Str_a1, Str_a2, <<"a","-","3">> >>
    /\ existingIds = {Str_a, Str_a1, Str_a2, <<"a","-","3">>}

(***************************************************************************)
(* Two HeadingIdGenerator instances, as the TOC parser and the content     *)
(* renderer each hold one                                                  *)
(***************************************************************************)
Instances == {"first", "second"}

\* a faulty variant: existingIds is one set of the class, shared by the instances
StoreFieldStatic(gs, g, ids) == [h \in DOMAIN gs |-> [gs[h] EXCEPT !.existingIds = ids]]

\* this.existingIds of instance g becomes ids: existingIds is a field of the instance
StoreField(gs, g, ids) == [gs EXCEPT ![g].existingIds = ids]

\* a faulty variant: reset leaves the set as it is
resetKeeping(existing) == existing

\* reset(): this.existingIds.clear()
reset(existing) == {}

MaxPairTexts == 3

PairTexts == { <<"A">>, <<"A"," ","1">>, <<"B">> }

\* new HeadingIdGenerator(), with the record of what the instance was fed: earlier
\* holds the texts fed before the last reset, fed and issued the texts fed and
\* the ids returned since
NewInstance == [existingIds |-> NewExistingIds, earlier |-> <<>>, fed |-> <<>>, issued |-> <<>>]

InitPair ==
    /\ mode = "pair"
    /\ calls = 0
    /\ generators = [g \in Instances |-> NewInstance]
    /\ TocIdle /\ ValueIdle /\ H2Idle /\ TrackIdle /\ ScrollIdle /\ FormatIdle
    /\ RescrollIdle

\* g.generateId(t)
GenerateIdOn(g, t) ==
    /\ mode = "pair"
    /\ Len(generators[g].earlier) + Len(generators[g].fed) < MaxPairTexts
    /\ \E r \in {generateId(t, generators[g].existingIds)} :
           generators' =
               [StoreField(generators, g, r.existingIds)
                   EXCEPT ![g].fed = Append(@, t), ![g].issued = Append(@, r.id)]
    /\ UNCHANGED <<mode, calls, tocVars, valueVars, h2Vars, trackVars, scrollVars, heading,
                   inFlight>>

\* g.reset(), on the instance that is reused from one document to the next
ResetOn(g) ==
    /\ mode = "pair"
    /\ g = "first"
    /\ generators[g].fed # <<>>
    /\ generators' =
           [StoreField(generators, g, reset(generators[g].existingIds))
               EXCEPT ![g].earlier = @ \o generators[g].fed, ![g].fed = <<>>,
                      ![g].issued = <<>>]
    /\ UNCHANGED <<mode, calls, tocVars, valueVars, h2Vars, trackVars, scrollVars, heading,
                   inFlight>>

NextPair ==
    \/ \E g \in Instances, t \in PairTexts : GenerateIdOn(g, t)
    \/ \E g \in Instances : ResetOn(g)

SpecPair == InitPair /\ [][NextPair]_vars

\* as far as the two instances were fed the same texts since their construction or
\* last reset, they returned the same ids
SameIdsForSameTexts ==
    LET a == generators["first"]
        b == generators["second"]
    IN  \A k \in 1..Len(a.fed) :
            (k <= Len(b.fed) /\ SubSeq(a.fed, 1, k) = SubSeq(b.fed, 1, k))
                => SubSeq(a.issued, 1, k) = SubSeq(b.issued, 1, k)

\* C22: two fresh HeadingIdGenerator instances fed the same sequence of heading
\* texts return the same sequence of ids.
C22_SameTextsSameIds ==
    (mode = "pair" /\ generators["first"].earlier = <<>>) => SameIdsForSameTexts

\* both instances, neither ever reset, were fed A, A, A 1, in different interleavings
C22_Witness ==
    /\ mode = "pair"
    /\ generators["first"].earlier = <<>>
    /\ generators["first"].fed = << <<"A">>, <<"A">>, <<"A"," ","1">> >>
    /\ generators["second"].fed = generators["first"].fed
    /\ generators["second"].issued = <<Str_a, Str_a1, Str_a11>>

\* C23: after reset() a HeadingIdGenerator behaves like a newly constructed one:
\* whatever texts it was fed before the reset, the ids it returns afterwards are
\* those a fresh generator returns for the same later texts.
C23_ResetIsFresh ==
    (mode = "pair" /\ generators["first"].earlier # <<>>) => SameIdsForSameTexts

\* the first instance was fed A, then reset, then fed A and A; the second, fresh, was
\* fed A and A
C23_Witness ==
    /\ mode = "pair"
    /\ generators["first"].earlier = << <<"A">> >>
    /\ generators["first"].fed = << <<"A">>, <<"A">> >>
    /\ generators["second"].fed = << <<"A">>, <<"A">> >>
    /\ generators["second"].issued = <<Str_a, Str_a1>>

(***************************************************************************)
(* Heading lines with inline formatting and anchor annotations             *)
(***************************************************************************)
MaxSegments == 2

\* a piece of a heading text: what it shows (inner) and how it is marked up
Segments ==
    { [kind |-> "plain", inner |-> <<"b">>],
      [kind |-> "bold", inner |-> <<"A">>],
      [kind |-> "italic", inner |-> <<"A">>],
      [kind |-> "code", inner |-> <<"A">>],
      [kind |-> "link", inner |-> <<"A">>],
      [kind |-> "codeItalic", inner |-> <<"A">>] }

\* the markdown of a piece: **A**, *A*, a code span, [A](u), a code span of *A*
Markup(seg) ==
    CASE seg.kind = "plain" -> seg.inner
      [] seg.kind = "bold" -> <<"*", "*">> \o seg.inner \o <<"*", "*">>
      [] seg.kind = "italic" -> <<"*">> \o seg.inner \o <<"*">>
      [] seg.kind = "code" -> <<Backtick>> \o seg.inner \o <<Backtick>>
      [] seg.kind = "link" -> <<"[">> \o seg.inner \o <<"]", "(", "u", ")">>
      [] seg.kind = "codeItalic" -> <<Backtick, "*">> \o seg.inner \o <<"*", Backtick>>

\* the pieces of segs joined by sep, each as written (written = TRUE) or as shown
RECURSIVE JoinSegments(_, _, _)
JoinSegments(segs, sep, written) ==
    IF segs = <<>> THEN <<>>
    ELSE LET piece == IF written THEN Markup(segs[1]) ELSE segs[1].inner
         IN  IF Len(segs) = 1 THEN piece
             ELSE piece \o sep \o JoinSegments(Tail(segs), sep, written)

Spaces(n) == [i \in 1..n |-> " "]

\* {#anchor} after gap spaces, or nothing
Annotation(h) ==
    IF h.anchor = <<>> THEN <<>> ELSE Spaces(h.gap) \o <<"{", "#">> \o h.anchor \o <<"}">>

\* the line of the heading h, with or without its annotation
HeadingLine(h, annotated) ==
    [i \in 1..h.hashes |-> "#"] \o <<" ">> \o JoinSegments(h.segs, h.sep, TRUE)
        \o (IF annotated THEN Annotation(h) ELSE <<>>)

\* the markdown a run parses: the line of h, after a line ## A when h.second
MarkdownOfHeading(h, annotated) ==
    IF h.second THEN <<"#", "#", " ", "A", "\n">> \o HeadingLine(h, annotated)
    ELSE HeadingLine(h, annotated)

Headings ==
    { [hashes |-> n, segs |-> segs, sep |-> sep, anchor |-> a, gap |-> g, second |-> b] :
        n \in 2..3, segs \in SeqsUpTo(Segments, MaxSegments), sep \in {<<>>, <<" ">>},
        a \in {<<>>, <<"x">>}, g \in 0..1, b \in BOOLEAN }

\* one way of writing each heading: no separator without two pieces, no gap
\* without an annotation
WrittenHeadings ==
    { h \in Headings : /\ (Len(h.segs) < 2 => h.sep = <<>>)
                       /\ (h.anchor = <<>> => h.gap = 0) }

FormatLevels == 2..3

InitFormat ==
    /\ mode = "parser"
    /\ calls = 0
    /\ heading \in WrittenHeadings
    /\ content = MarkdownOfHeading(heading, TRUE)
    /\ maxLevel \in FormatLevels
    /\ tocItems = <<>>
    /\ memo = NoMemo
    /\ SlugIdle /\ GeneratorIdle /\ SelectIdle
    /\ ValueIdle /\ H2Idle /\ TrackIdle /\ ScrollIdle /\ PairIdle /\ RescrollIdle

NextFormat == ParseOnce

SpecFormat == InitFormat /\ [][NextFormat]_vars

\* the call has returned on the markdown of a heading within maxLevel
FormatParsed == mode = "parser" /\ calls = 1 /\ heading # NoHeading /\ heading.hashes <= maxLevel

\* what the heading shows: the inner texts of its pieces
ShownText(h) == JoinSegments(h.segs, h.sep, FALSE)

\* the least n >= 1 such that n characters of one line follow position from - 1 and
\* the word close follows them (0: there is none)
LeastInner(s, from, close) ==
    LET fits == {n \in 1..Len(s) :
                    /\ \A k \in 0..(n - 1) : from + k <= Len(s) /\ ~IsLineTerminator(s[from + k])
                    /\ StartsWith(s, from + n, close)}
    IN  IF fits = {} THEN 0 ELSE CHOOSE n \in fits : \A m \in fits : n <= m

\* the occurrences of open x close in s, x as short as can be: where each starts,
\* where its x lies and how long it is
DelimitedSpans(s, open, close) ==
    { [at |-> i, innerAt |-> i + Len(open), innerLen |-> LeastInner(s, i + Len(open), close),
       len |-> Len(open) + LeastInner(s, i + Len(open), close) + Len(close)] :
        i \in {j \in 1..Len(s) : StartsWith(s, j, open) /\ LeastInner(s, j + Len(open), close) > 0} }

\* the occurrences of [x](url) in s, x and url as short as can be
LinkSpans(s) ==
    LET textFits(i) == {n \in 1..Len(s) :
                           /\ \A k \in 1..n : i + k <= Len(s) /\ ~IsLineTerminator(s[i + k])
                           /\ StartsWith(s, i + n + 1, <<"]", "(">>)
                           /\ LeastInner(s, i + n + 3, <<")">>) > 0}
        least(i) == CHOOSE n \in textFits(i) : \A m \in textFits(i) : n <= m
    IN  { [at |-> i, innerAt |-> i + 1, innerLen |-> least(i),
           len |-> 1 + least(i) + 2 + LeastInner(s, i + least(i) + 3, <<")">>) + 1] :
            i \in {j \in 1..Len(s) : s[j] = "[" /\ textFits(j) # {}} }

\* of the occurrences, those a scan from the left replaces: they do not overlap, and
\* an occurrence is left out only when it starts inside one that is replaced
Replaced(spans) ==
    CHOOSE M \in SUBSET spans :
        /\ \A a, b \in M : a.at < b.at => a.at + a.len <= b.at
        /\ \A c \in spans \ M : \E a \in M : a.at < c.at /\ c.at < a.at + a.len

RECURSIVE Flatten(_)
Flatten(pieces) == IF pieces = <<>> THEN <<>> ELSE pieces[1] \o Flatten(Tail(pieces))

\* s with each replaced occurrence reduced to its x
InnerTextOnly(s, spans) ==
    LET M == Replaced(spans)
    IN  Flatten([p \in 1..Len(s) |->
                    IF \E a \in M : a.at = p
                    THEN LET a == CHOOSE b \in M : b.at = p
                         IN  SubSeq(s, a.innerAt, a.innerAt + a.innerLen - 1)
                    ELSE IF \E a \in M : a.at < p /\ p < a.at + a.len THEN <<>>
                    ELSE <<s[p]>>])

\* the text with bold, then italic, then inline-code, then link syntax replaced
WithoutSyntax(t) ==
    LET t1 == InnerTextOnly(t, DelimitedSpans(t, <<"*", "*">>, <<"*", "*">>))
        t2 == InnerTextOnly(t1, DelimitedSpans(t1, <<"*">>, <<"*">>))
        t3 == InnerTextOnly(t2, DelimitedSpans(t2, <<Backtick>>, <<Backtick>>))
    IN  InnerTextOnly(t3, LinkSpans(t3))

\* the pieces of the heading can be told apart: there is one, or a space separates them
Separated(h) == Len(h.segs) = 1 \/ h.sep = <<" ">>

\* C24: the emitted text of a heading is its text with bold, then italic, then
\* inline-code, then link syntax replaced by the inner text, and the emitted id
\* is generated from that cleaned text, not from the raw text; for a heading
\* whose pieces are separated, the text is what the pieces show.
C24_CleanedTextAndId ==
    (FormatParsed /\ heading.anchor = <<>> /\ heading.segs # <<>>) =>
        /\ Len(tocItems) = (IF heading.second THEN 2 ELSE 1)
        /\ LET item == tocItems[Len(tocItems)]
               before == {tocItems[i].id : i \in 1..(Len(tocItems) - 1)}
           IN  /\ item.text = WithoutSyntax(JoinSegments(heading.segs, heading.sep, TRUE))
               /\ Separated(heading) => item.text = ShownText(heading)
               /\ item.level = heading.hashes
               /\ item.id = generateId(item.text, before).id

\* ## A, then ## [A](u) **A**: the second item shows A A and has the id a-a; the raw
\* text would give au-a
C24_Witness ==
    /\ FormatParsed
    /\ content = <<"#","#"," ","A","\n","#","#"," ","[","A","]","(","u",")"," ","*","*","A","*","*">>
    /\ tocItems = << [id |-> <<"a">>, text |-> <<"A">>, level |-> 2],
                     [id |-> <<"a","-","a">>, text |-> <<"A"," ","A">>, level |-> 2] >>

\* the call has returned on the markdown of a heading that ends with an annotation
AnnotatedParsed == FormatParsed /\ heading.anchor # <<>>

\* position i of t starts the word w
Occurs(w, t) == \E i \in 1..(Len(t) - Len(w) + 1) : SubSeq(t, i, i + Len(w) - 1) = w

\* C25: a level-2 or level-3 heading line that ends with {#anchor} is recognized,
\* its emitted text and id are those of the same line without the annotation, and
\* the anchor name is neither the id nor part of the text.
C25_AnnotationIgnored ==
    AnnotatedParsed =>
        /\ Len(tocItems) = (IF heading.second THEN 2 ELSE 1)
        /\ tocItems = parseTocFromMarkdown(MarkdownOfHeading(heading, FALSE), maxLevel)
        /\ LET item == tocItems[Len(tocItems)]
           IN  item.id # heading.anchor /\ ~Occurs(heading.anchor, item.text)

(***************************************************************************)
(* The revision of getTocFromContent without the parsing fallback          *)
(* (scrollUtils.ts, lines 60-78)                                           *)
(***************************************************************************)
\* a faulty variant: the markdown is parsed when the backend list is missing
getTocFromContentStrictParsing(c) ==
    IF ~Truthy(c) THEN [toc |-> <<>>, parserCalls |-> 0]
    ELSE IF Truthy(ExtToc(c)) /\ ExtToc(c).type = "array" /\ Len(ExtToc(c).items) > 0
         THEN [toc |-> ExtToc(c).items, parserCalls |-> 0]
         ELSE [toc |-> parseTocFromMarkdown(c.content, DefaultMaxLevel), parserCalls |-> 1]

\* getTocFromContent(c) of that revision: the list returned and the number of
\* calls of parseTocFromMarkdown it made
getTocFromContentStrict(c) ==
    IF ~Truthy(c) THEN [toc |-> <<>>, parserCalls |-> 0]
    ELSE IF Truthy(ExtToc(c)) /\ ExtToc(c).type = "array" /\ Len(ExtToc(c).items) > 0
         THEN [toc |-> ExtToc(c).items, parserCalls |-> 0]
         ELSE [toc |-> <<>>, parserCalls |-> 0]

InitStrict ==
    /\ mode = "strict"
    /\ calls = 0
    /\ wikiContent \in WikiContents
    /\ toc = <<>>
    /\ parserCalls = 0
    /\ SlugIdle /\ GeneratorIdle /\ ParserIdle /\ MoreIdle

GetTocFromContentStrict ==
    /\ mode = "strict"
    /\ calls = 0
    /\ \E r \in {getTocFromContentStrict(wikiContent)} :
          /\ toc' = r.toc
          /\ parserCalls' = parserCalls + r.parserCalls
    /\ calls' = calls + 1
    /\ UNCHANGED <<mode, wikiContent, slugVars, genVars, parseVars, moreVars>>

NextStrict == GetTocFromContentStrict

SpecStrict == InitStrict /\ [][NextStrict]_vars

StrictReturned == mode = "strict" /\ calls = 1

\* C26: the revision without fallback returns content.ext.toc as it is when that
\* is a non-empty array and the empty list in every other case; the markdown in
\* content.content has no part in the result.
C26_StrictNoFallback ==
    StrictReturned =>
        /\ toc = (IF HasBackendToc(wikiContent) THEN wikiContent.ext.toc.items ELSE <<>>)
        /\ parserCalls = 0

\* an empty ext.toc over markdown with a heading: the result is the empty list
C26_Witness ==
    /\ StrictReturned
    /\ wikiContent = [type |-> "object",
                      ext |-> [type |-> "object", toc |-> [type |-> "array", items |-> <<>>]],
                      content |-> DocX]
    /\ toc = <<>>

(***************************************************************************)
(* Calls of the scroll functions while a smooth scroll is in flight        *)
(*                                                                         *)
(* The functions keep no state: each call reads the positions and issues   *)
(* scrollTo.  A scrollTo on a scroller replaces the smooth scroll the      *)
(* browser is carrying out on that scroller.                               *)
(***************************************************************************)
MaxScrollCalls == 2

\* the scrollers: the window and the scroll container
Scrollers == {"window", ScrollContainer}

NothingInFlight == [t \in Scrollers |-> NoRequest]

InitRescroll ==
    /\ mode = "rescroll"
    /\ calls = 0
    /\ layout \in Layouts
    /\ scrollY \in {0, 40}
    /\ scrollTop \in {0, 300}
    /\ scrollCall = [fn |-> "none"]
    /\ request = NoRequest
    /\ raised = FALSE
    /\ honoured = "no"
    /\ inFlight = NothingInFlight
    /\ TocIdle /\ ValueIdle /\ H2Idle /\ TrackIdle /\ PairIdle /\ FormatIdle

\* scrollTo(r) on the scroller r.target, when the call issued a request
Issue(r) ==
    IF r = NoRequest THEN inFlight
    ELSE [inFlight EXCEPT ![r.target] = [top |-> r.top, behavior |-> r.behavior, frames |-> 0]]

\* a call of scrollToHeading, whatever is in flight
ScrollToHeadingAgain(id, arg) ==
    /\ mode = "rescroll"
    /\ calls < MaxScrollCalls
    /\ \E r \in {scrollToHeading(id, OffsetOf(arg))} :
          /\ request' = r.request
          /\ raised' = r.raised
          /\ inFlight' = Issue(r.request)
    /\ scrollCall' = [fn |-> "scrollToHeading", id |-> id, container |-> NullElement,
                      offset |-> arg, scrollY |-> scrollY, scrollTop |-> scrollTop]
    /\ calls' = calls + 1
    /\ UNCHANGED <<mode, layout, scrollY, scrollTop, honoured, tocVars, valueVars, h2Vars,
                   trackVars, generators, heading>>

\* a call of scrollToHeadingInContainer, whatever is in flight
ScrollToHeadingInContainerAgain(id, container, arg) ==
    /\ mode = "rescroll"
    /\ calls < MaxScrollCalls
    /\ \E r \in {scrollToHeadingInContainer(id, container, OffsetOf(arg))} :
          /\ request' = r.request
          /\ raised' = r.raised
          /\ inFlight' = Issue(r.request)
    /\ scrollCall' = [fn |-> "scrollToHeadingInContainer", id |-> id,
                      container |-> container, offset |-> arg,
                      scrollY |-> scrollY, scrollTop |-> scrollTop]
    /\ calls' = calls + 1
    /\ UNCHANGED <<mode, layout, scrollY, scrollTop, honoured, tocVars, valueVars, h2Vars,
                   trackVars, generators, heading>>

PositionOf(t) == IF t = "window" THEN scrollY ELSE scrollTop

\* the position the scroll in flight on t ends at
Destination(t) ==
    IF inFlight[t].top \in ScrollRange THEN inFlight[t].top
    ELSE IF inFlight[t].top < 0 THEN 0 ELSE 1000

\* a frame of the smooth scroll on t: half of the way is done
Advance(t) ==
    /\ mode = "rescroll"
    /\ inFlight[t] # NoRequest
    /\ inFlight[t].frames = 0
    /\ \E pos \in {(PositionOf(t) + Destination(t)) \div 2} :
          /\ pos # PositionOf(t)
          /\ pos # Destination(t)
          /\ IF t = "window"
             THEN scrollY' = pos /\ UNCHANGED scrollTop
             ELSE scrollTop' = pos /\ UNCHANGED scrollY
    /\ inFlight' = [inFlight EXCEPT ![t].frames = 1]
    /\ UNCHANGED <<mode, calls, layout, scrollCall, request, raised, honoured, tocVars,
                   valueVars, h2Vars, trackVars, generators, heading>>

\* the smooth scroll on t ends
Arrive(t) ==
    /\ mode = "rescroll"
    /\ inFlight[t] # NoRequest
    /\ IF t = "window"
       THEN scrollY' = Destination(t) /\ UNCHANGED scrollTop
       ELSE scrollTop' = Destination(t) /\ UNCHANGED scrollY
    /\ inFlight' = [inFlight EXCEPT ![t] = NoRequest]
    /\ UNCHANGED <<mode, calls, layout, scrollCall, request, raised, honoured, tocVars,
                   valueVars, h2Vars, trackVars, generators, heading>>

NextRescroll ==
    \/ \E id \in ScrollIds, arg \in OffsetArgs : ScrollToHeadingAgain(id, arg)
    \/ \E id \in ScrollIds, container \in {NullElement, ScrollContainer}, arg \in OffsetArgs :
          ScrollToHeadingInContainerAgain(id, container, arg)
    \/ \E t \in Scrollers : Advance(t)
    \/ \E t \in Scrollers : Arrive(t)

SpecRescroll == InitRescroll /\ [][NextRescroll]_vars

\* a step that is a call of one of the two functions
RescrollStep == mode = "rescroll" /\ calls' = calls + 1

\* the scroller a call addresses
ScrollerOf(c) == IF c.container = NullElement THEN "window" ELSE c.container

\* where the heading lies in what the scroller t scrolls, at this moment
PlaceIn(t, id) ==
    IF t = "window" THEN layout.containerTop + layout.offsetIn[id] - scrollTop
    ELSE layout.offsetIn[id]

\* C27: a call made while a smooth scroll is in flight is not queued, rejected or
\* delayed: within the call a new request is issued, computed from the positions at
\* the time of this call, and it replaces the one in flight on its scroller.
C27_NewRequestSupersedes ==
    [][(RescrollStep /\ scrollCall'.id \in layout.ids
          /\ inFlight[ScrollerOf(scrollCall')] # NoRequest) =>
          LET c == scrollCall'
              t == ScrollerOf(c)
              top == PlaceIn(t, c.id) - OffsetOf(c.offset)
          IN  /\ request' = [target |-> t, top |-> top, behavior |-> "smooth"]
              /\ inFlight'[t] = [top |-> top, behavior |-> "smooth", frames |-> 0]
              /\ \A u \in Scrollers \ {t} : inFlight'[u] = inFlight[u]
              /\ scrollY' = scrollY /\ scrollTop' = scrollTop]_vars

\* scrollToHeading('h2') from the top of the page, half of the way done, then
\* scrollToHeading('h1'): the request for h1 is the one in flight
C27_Witness ==
    /\ mode = "rescroll"
    /\ calls = 2
    /\ layout.containerTop = 60
    /\ scrollCall.fn = "scrollToHeading"
    /\ scrollCall.id = "h1"
    /\ scrollCall.offset = Undefined
    /\ scrollCall.scrollY = 240
    /\ scrollY = 240
    /\ scrollTop = 0
    /\ request = [target |-> "window", top |-> 80, behavior |-> "smooth"]
    /\ inFlight["window"] = [top |-> 80, behavior |-> "smooth", frames |-> 0]

C29_NeverBackToNull ==
    [][(mode = "tracker" /\ activeId # NullId) => activeId' # NullId]_vars

\* the id list became empty after h1 was active, the observer was disconnected and
\* none was created: the activeId is still h1
C29_Witness ==
    /\ Settled
    /\ renders = 1
    /\ headingIds = <<>>
    /\ Connected = {}
    /\ Len(observers) = 1
    /\ activeId = "h1"

(***************************************************************************)
(* The tracker on a page whose heading elements are mounted over time      *)
(***************************************************************************)
\* the element with the id is mounted: from now on getElementById finds it
MountElement(id) ==
    /\ mode = "tracker"
    /\ phase # "unmounted"
    /\ id \notin dom
    /\ dom' = dom \cup {id}
    /\ UNCHANGED <<mode, calls, phase, headingIds, containerRef, current, rootMargin,
                   threshold, activeId, observers, cleanup, pending, renders, lastVisible,
                   tocVars, restVars, scrollVars, valueVars, h2Vars>>

NextLate ==
    \/ NextTrack
    \/ \E id \in {"h1", "h2"} : MountElement(id)

SpecLate == InitTrack /\ [][NextLate]_vars

\* the ids the connected observers observe
ObservedIds == UNION {observers[i].targets : i \in Connected}

\* C30: at each (re)subscription the observer observes exactly the ids of the list
\* that have an element at that moment; an id whose element is mounted afterwards
\* is not added to a subscription and cannot become active through an intersection
\* event before a new subscription; with an empty id list no observer is created.
C30_ObservesPresentElements ==
    /\ [][Len(observers') > Len(observers) =>
             /\ headingIds # <<>>
             /\ observers'[Len(observers')].connected
             /\ observers'[Len(observers')].targets = Range(headingIds) \cap dom]_vars
    /\ [][\A i \in Connected :
             observers'[i].connected => observers'[i].targets = observers[i].targets]_vars
    /\ [][dom' # dom => observers' = observers]_vars
    /\ [][(activeId' # activeId /\ ~(activeId = NullId /\ "default" \in pending))
             => activeId' \in ObservedIds]_vars
    /\ []((Settled /\ headingIds = <<>>) => Connected = {})

\* h1 was mounted after the subscription for h1, h2: the observer observes h2 only
C30_Witness ==
    /\ Settled
    /\ headingIds = <<"h1", "h2">>
    /\ dom = {"h1", "h2"}
    /\ ObservedIds = {"h2"}
    /\ activeId = "h2"
====
